---- MODULE Spec2Model ----
(***************************************************************************)
(* State-machine model of the to-do application's frontend services:       *)
(*   - the auth service        (frontend/services/authApi.ts)              *)
(*   - the ApiClient           (frontend/services/api.ts)                  *)
(*   - the task forms          (frontend/components/tasks/TaskModal.tsx,   *)
(*                              frontend/components/tasks/TaskForm.tsx)    *)
(* The backend is the environment: every answer it can give is chosen      *)
(* nondeterministically from small sets.                                   *)
(***************************************************************************)
EXTENDS Integers, Sequences, FiniteSets, TLC

VARIABLES
  cookieJar,     \* document.cookie of the page: cookie name -> value
  localStorage,  \* window.localStorage: key -> value
  location,      \* window.location.href (the path)
  calls,         \* the service calls of the page, one record per slot
  text,          \* forms: the title and description text of the open form
  formTask,      \* forms: the task being edited (the task prop), or Undefined
  form,          \* forms: the rest of the form state
  history,       \* getHistory: the backend answer and the mapped result
  tasksPage,     \* the tasks page: store tasks, filter, sort, search, modals
  historyPage,   \* the history page: shown page, fetches and deletes in flight
  notifPage,     \* the notifications page: list, unread count, fetches in flight
  authForm,      \* the signup and login forms
  theme          \* the theme provider: mode, stored preference, root class

authVars == <<cookieJar, localStorage, location, calls>>
formVars == <<text, formTask, form>>
histVars == <<history>>
pageVars == <<tasksPage, historyPage, notifPage, authForm, theme>>
notTasksPage == <<historyPage, notifPage, authForm, theme>>
notHistoryPage == <<tasksPage, notifPage, authForm, theme>>
notNotifPage == <<tasksPage, historyPage, authForm, theme>>
notAuthForm == <<tasksPage, historyPage, notifPage, theme>>
notTheme == <<tasksPage, historyPage, notifPage, authForm>>
vars ==
  <<cookieJar, localStorage, location, calls, text, formTask, form, history,
    tasksPage, historyPage, notifPage, authForm, theme>>

\* --------------------------------------------------------------- bounds
\* Calls of the auth service, and calls of the ApiClient, that may be in
\* flight on the page at the same time.
MaxAuthCalls == 1
MaxApiCalls == 1

AuthIds == 1..MaxAuthCalls
ApiIds == (MaxAuthCalls + 1)..(MaxAuthCalls + MaxApiCalls)
CallIds == AuthIds \cup ApiIds

\* ---------------------------------------------------- JavaScript values
\* Every value is a record tagged with its type, so that property access,
\* truthiness and string conversion can be computed as the language does.
Undefined == [t |-> "undefined"]
Null == [t |-> "null"]
Str(s) == [t |-> "string", v |-> s]
Num(n) == [t |-> "number", n |-> n]
Bool(b) == [t |-> "boolean", b |-> b]
Obj(fields) == [t |-> "object", f |-> fields]
Arr(items) == [t |-> "array", items |-> items]

\* ToBoolean: what `if (x)`, `x || y` and `x && y` test.
Truthy(x) ==
  CASE x.t = "undefined" -> FALSE
    [] x.t = "null" -> FALSE
    [] x.t = "string" -> ("v" \in DOMAIN x => x.v # "")
    [] x.t = "number" -> x.n # 0
    [] x.t = "boolean" -> x.b
    [] OTHER -> TRUE

\* x || y
Or(x, y) == IF Truthy(x) THEN x ELSE y

\* Reading x.k cannot be done on null or undefined (TypeError).
CanRead(x) == x.t \notin {"undefined", "null"}

\* x.k for a readable x: a missing property reads as undefined.
Get(x, k) ==
  IF x.t = "object" /\ k \in DOMAIN x.f THEN x.f[k] ELSE Undefined

\* String(x), as `new Error(x)` and template literals apply it (strings are
\* kept, objects and arrays of objects print as "[object Object]").
StringOf(x) ==
  CASE x.t = "string" -> x
    [] x.t = "undefined" -> Str("undefined")
    [] x.t = "null" -> Str("null")
    [] OTHER -> Str("[object Object]")

\* JSON.stringify(x): the JSON text of x; JSON.stringify(undefined) is
\* undefined, not a string.
JSONStringify(x) ==
  IF x.t = "undefined" THEN Undefined ELSE [t |-> "string", json |-> x]

\* new Error(message)
Error(message) == [t |-> "error", name |-> "Error", message |-> StringOf(message)]
\* What fetch rejects with when the network fails.
FetchError == [t |-> "error", name |-> "TypeError", message |-> Str("Failed to fetch")]
\* What response.json() rejects with on a body that is not JSON.
JsonSyntaxError == [t |-> "error", name |-> "SyntaxError", message |-> Str("Unexpected token < in JSON")]
\* What reading a property of null or undefined throws.
PropertyTypeError == [t |-> "error", name |-> "TypeError", message |-> Str("Cannot read properties of undefined")]

\* ------------------------------------------------------- browser state
Absent == Undefined

\* The cookie string authApi assigns to document.cookie, as its parts.
\* expiresInDays is the expiry relative to now: setCookie adds `days` to the
\* current date, deleteCookie names the epoch, which lies in the past.
CookieDays == 30

setCookieString(name, value, days) ==
  [name |-> name, value |-> StringOf(value), expiresInDays |-> days,
   path |-> "/", sameSite |-> "Lax", secure |-> TRUE]

deleteCookieString(name) ==
  [name |-> name, value |-> Str(""), expiresInDays |-> -1,
   path |-> "/", sameSite |-> "", secure |-> FALSE]

\* The page is served over https (a secure context), so cookies marked
\* Secure are accepted.
SecureContext == TRUE

\* The browser's handling of `document.cookie = c`: a cookie whose expiry is
\* not in the future removes the stored cookie of that name and path, any
\* other replaces it.
AssignCookie(jar, c) ==
  IF c.secure /\ ~SecureContext THEN jar
  ELSE IF c.expiresInDays <= 0 THEN [jar EXCEPT ![c.name] = Absent]
  ELSE [jar EXCEPT ![c.name] = c.value]

setCookie(jar, name, value, days) == AssignCookie(jar, setCookieString(name, value, days))
deleteCookie(jar, name) == AssignCookie(jar, deleteCookieString(name))

\* localStorage.setItem stores the string conversion of the value.
setItem(ls, key, value) == [ls EXCEPT ![key] = StringOf(value)]
removeItem(ls, key) == [ls EXCEPT ![key] = Absent]
\* localStorage.getItem gives null for a missing key.
getItem(ls, key) == IF ls[key] = Absent THEN Null ELSE ls[key]

CookieNames == {"auth_token"}
StorageKeys == {"auth_token", "user"}

\* ------------------------------------------------------ the backend
\* What the backend may answer. Tokens are opaque non-empty strings.
Tokens == {Str("t1"), Str("t2")}
Users == {Obj([email |-> Str("a@x.io")]), Obj([email |-> Str("b@x.io")])}
\* The detail of an error answer: a message, or the list of validation
\* errors the backend framework sends with status 422.
Details == {Str("Invalid credentials"),
            Arr(<<Obj([msg |-> Str("value is not a valid email address")])>>)}
\* A body for which response.json() rejects (an HTML error page of a proxy).
NotJson == [t |-> "notjson"]

AuthOps == {"signup", "login", "logout", "getCurrentUser", "isAuthenticated"}

OkBodies(op) ==
  CASE op \in {"signup", "login"} ->
         {Obj([token |-> t, user |-> u]) : t \in Tokens, u \in Users}
           \cup {Obj([user |-> u]) : u \in Users}
    [] op = "logout" -> {Obj([message |-> Str("Logged out")])}
    [] OTHER -> Users

ErrorBodies == {Obj([detail |-> d]) : d \in Details} \cup {Obj([message |-> Str("error")])}

\* How a fetch of the auth service may settle: it rejects (network failure),
\* or it resolves with a response that is ok or not and a body.
FetchOutcomes(op) ==
  {[kind |-> "network_error"]}
    \cup {[kind |-> "response", ok |-> TRUE, body |-> b] : b \in OkBodies(op) \cup {NotJson}}
    \cup {[kind |-> "response", ok |-> FALSE, body |-> b] : b \in ErrorBodies \cup {NotJson}}

\* --------------------------------------------------- the auth service
\* The result of running a function body: how it ended, with what value,
\* and the cookie jar and local storage it leaves.
Returned(v, jar, ls) == [outcome |-> "returned", value |-> v, jar |-> jar, ls |-> ls]
Threw(e, jar, ls) == [outcome |-> "threw", value |-> e, jar |-> jar, ls |-> ls]

\* A signup that stores the token in local storage and forgets the user.
signupTokenOnly(resp, jar, ls) ==
  IF resp.kind = "network_error" THEN Threw(FetchError, jar, ls)
  ELSE IF resp.body = NotJson THEN Threw(JsonSyntaxError, jar, ls)
  ELSE IF ~resp.ok
    THEN Threw(Error(Or(Get(resp.body, "detail"), Str("Signup failed. Please try again."))), jar, ls)
  ELSE IF Truthy(Get(resp.body, "token"))
    THEN Returned(resp.body,
           setCookie(jar, "auth_token", Get(resp.body, "token"), CookieDays),
           setItem(ls, "auth_token", Get(resp.body, "token")))
  ELSE Returned(resp.body, jar, ls)

\* signup, from the point where fetch settles with `resp`.
signup(resp, jar, ls) ==
  IF resp.kind = "network_error" THEN Threw(FetchError, jar, ls)
  ELSE IF resp.body = NotJson THEN Threw(JsonSyntaxError, jar, ls)
  ELSE IF ~resp.ok
    THEN Threw(Error(Or(Get(resp.body, "detail"), Str("Signup failed. Please try again."))), jar, ls)
  ELSE IF Truthy(Get(resp.body, "token"))
    THEN Returned(resp.body,
           setCookie(jar, "auth_token", Get(resp.body, "token"), CookieDays),
           setItem(setItem(ls, "auth_token", Get(resp.body, "token")),
                   "user", JSONStringify(Get(resp.body, "user"))))
  ELSE Returned(resp.body, jar, ls)

\* A login that sets the cookie and forgets the copies in local storage.
loginCookieOnly(resp, jar, ls) ==
  IF resp.kind = "network_error" THEN Threw(FetchError, jar, ls)
  ELSE IF resp.body = NotJson THEN Threw(JsonSyntaxError, jar, ls)
  ELSE IF ~resp.ok
    THEN Threw(Error(Or(Get(resp.body, "detail"), Str("Login failed. Please try again."))), jar, ls)
  ELSE IF Truthy(Get(resp.body, "token"))
    THEN Returned(resp.body,
           setCookie(jar, "auth_token", Get(resp.body, "token"), CookieDays), ls)
  ELSE Returned(resp.body, jar, ls)

\* login, from the point where fetch settles with `resp`.
login(resp, jar, ls) ==
  IF resp.kind = "network_error" THEN Threw(FetchError, jar, ls)
  ELSE IF resp.body = NotJson THEN Threw(JsonSyntaxError, jar, ls)
  ELSE IF ~resp.ok
    THEN Threw(Error(Or(Get(resp.body, "detail"), Str("Login failed. Please try again."))), jar, ls)
  ELSE IF Truthy(Get(resp.body, "token"))
    THEN Returned(resp.body,
           setCookie(jar, "auth_token", Get(resp.body, "token"), CookieDays),
           setItem(setItem(ls, "auth_token", Get(resp.body, "token")),
                   "user", JSONStringify(Get(resp.body, "user"))))
  ELSE Returned(resp.body, jar, ls)

\* The try block of logout.
logoutTry(resp, jar, ls) ==
  IF resp.kind = "network_error" THEN Threw(FetchError, jar, ls)
  ELSE IF resp.body = NotJson THEN Threw(JsonSyntaxError, jar, ls)
  ELSE IF ~resp.ok
    THEN Threw(Error(Or(Get(resp.body, "detail"), Str("Logout failed. Please try again."))), jar, ls)
  ELSE Returned(resp.body, jar, ls)

\* A logout that clears the credentials after the try block instead of in a
\* finally block: nothing is cleared when the try block throws.
logoutClearAfterTry(r) ==
  IF r.outcome = "threw" THEN r
  ELSE [r EXCEPT !.jar = deleteCookie(r.jar, "auth_token"),
                 !.ls = removeItem(removeItem(r.ls, "auth_token"), "user")]

\* The finally block of logout: it runs however the try block ended and
\* keeps the try block's outcome.
logoutFinally(r) ==
  [r EXCEPT !.jar = deleteCookie(r.jar, "auth_token"),
            !.ls = removeItem(removeItem(r.ls, "auth_token"), "user")]

\* A logout without the finally block: it leaves the stored credentials to
\* whoever wrote them.
logoutLeavingStorage(resp, jar, ls) == logoutTry(resp, jar, ls)

\* logout, from the point where fetch settles with `resp`.
logout(resp, jar, ls) == logoutFinally(logoutTry(resp, jar, ls))

\* getCurrentUser, from the point where fetch settles with `resp`.
getCurrentUser(resp, jar, ls) ==
  IF resp.kind = "network_error" THEN Threw(FetchError, jar, ls)
  ELSE IF resp.body = NotJson THEN Threw(JsonSyntaxError, jar, ls)
  ELSE IF ~resp.ok
    THEN Threw(Error(Or(Get(resp.body, "detail"), Str("Session validation failed."))), jar, ls)
  ELSE Returned(resp.body, jar, ls)

\* An isAuthenticated without the try/catch: the rejection of getCurrentUser
\* reaches the caller.
isAuthenticatedUncaught(resp, jar, ls) ==
  LET r == getCurrentUser(resp, jar, ls)
  IN  IF r.outcome = "returned" THEN Returned(Bool(TRUE), r.jar, r.ls) ELSE r

\* isAuthenticated: true when getCurrentUser resolves, false when it throws.
isAuthenticated(resp, jar, ls) ==
  LET r == getCurrentUser(resp, jar, ls)
  IN  IF r.outcome = "returned" THEN Returned(Bool(TRUE), r.jar, r.ls)
      ELSE Returned(Bool(FALSE), r.jar, r.ls)

\* The Authorization header logout and getCurrentUser send: the token local
\* storage holds when the function is called, if it holds one.
BearerHeader(token) ==
  IF Truthy(token) THEN Str("Bearer " \o token.v) ELSE Undefined

AuthHeader(op, ls) ==
  IF op \in {"logout", "getCurrentUser", "isAuthenticated"}
  THEN BearerHeader(getItem(ls, "auth_token"))
  ELSE Undefined

AuthRun(op, resp, jar, ls) ==
  CASE op = "signup" -> signup(resp, jar, ls)
    [] op = "login" -> login(resp, jar, ls)
    [] op = "logout" -> logout(resp, jar, ls)
    [] op = "getCurrentUser" -> getCurrentUser(resp, jar, ls)
    [] op = "isAuthenticated" -> isAuthenticated(resp, jar, ls)

\* ------------------------------------------------------ service calls
NoResp == [kind |-> "none"]

IdleCall ==
  [op |-> "none", pc |-> "idle", header |-> Undefined, sent |-> 0,
   resp |-> NoResp, logged |-> {}, outcome |-> "none", value |-> Undefined]

Free(c) == calls[c].pc \in {"idle", "done"}

\* A component calls an auth function: the function reads the token (logout,
\* getCurrentUser) and issues its fetch.
AuthCall(c, op) ==
  /\ Free(c)
  /\ calls' = [calls EXCEPT ![c] =
       [IdleCall EXCEPT !.op = op, !.pc = "fetch",
                        !.header = AuthHeader(op, localStorage), !.sent = 1]]
  /\ UNCHANGED <<cookieJar, localStorage, location, formVars, histVars, pageVars>>

\* The fetch of an auth call settles and the rest of the function runs.
AuthSettle(c, resp) ==
  /\ calls[c].pc = "fetch"
  /\ calls[c].op \in AuthOps
  /\ LET r == AuthRun(calls[c].op, resp, cookieJar, localStorage)
     IN  /\ cookieJar' = r.jar
         /\ localStorage' = r.ls
         /\ calls' = [calls EXCEPT ![c].pc = "done", ![c].resp = resp,
                                   ![c].outcome = r.outcome, ![c].value = r.value]
  /\ UNCHANGED <<location, formVars, histVars, pageVars>>

\* ------------------------------------------------------ the ApiClient
ApiMethods ==
  {"getHealth", "getTasks", "getTask", "createTask", "updateTask",
   "completeTask", "incompleteTask", "deleteTask", "getHistory",
   "deleteHistoryEntry", "getWeeklyStats", "getNotifications",
   "markNotificationAsRead", "markAllNotificationsAsRead", "getUnreadCount"}

\* The response envelope {success, data, popup, error}.
Envelope(d) == Obj([success |-> Bool(TRUE), data |-> d, popup |-> Null, error |-> Null])

\* The backend's pagination record the spec gives as its example.
ExamplePagination ==
  Obj([current_page |-> Num(2), page_size |-> Num(10), total_count |-> Num(25),
       total_pages |-> Num(3), has_next |-> Bool(TRUE), has_prev |-> Bool(TRUE)])

NotificationList ==
  Obj([notifications |-> Arr(<<Str("n1")>>), unread_count |-> Num(1), total_count |-> Num(1)])

\* The data a successful answer to each method carries.
DataOf(m) ==
  CASE m = "getHealth" -> Obj([status |-> Str("healthy"), service |-> Str("todo-app-backend")])
    [] m = "getTasks" -> Arr(<<Str("task1")>>)
    [] m \in {"deleteTask", "deleteHistoryEntry"} -> Obj([deleted |-> Bool(TRUE)])
    [] m = "getHistory" -> Obj([items |-> Arr(<<Str("h1")>>), pagination |-> ExamplePagination])
    [] m = "getWeeklyStats" -> Obj([total_tasks |-> Num(4)])
    [] m = "getNotifications" -> NotificationList
    [] m = "markNotificationAsRead" -> Obj([id |-> Str("n1")])
    [] m \in {"markAllNotificationsAsRead", "getUnreadCount"} -> Obj([count |-> Num(2)])
    [] OTHER -> Obj([id |-> Str("task1")])

\* The bodies of a successful answer: the envelope with the method's data or
\* with no data; the notification list also comes without an envelope, the
\* shape the notifications page reads.
ApiBodies(m) ==
  {Envelope(DataOf(m)), Envelope(Null)}
    \cup (IF m = "getNotifications" THEN {NotificationList} ELSE {})

\* The statuses of an answer axios rejects (any status outside 2xx).
ErrorStatuses == {401, 403, 500}

\* How the HTTP call of a method may end: a 2xx answer, an error status, or
\* no answer at all (network failure, or the 30 s timeout).
ApiOutcomes(m) ==
  {[kind |-> "success", status |-> 200, body |-> b] : b \in ApiBodies(m)}
    \cup {[kind |-> "error", status |-> s] : s \in ErrorStatuses}
    \cup {[kind |-> "no_response", status |-> 0]}

\* The error axios rejects with; error.response is undefined when no answer
\* came.
AxiosError(r) ==
  [t |-> "error", name |-> "AxiosError", message |-> Str("Request failed"),
   status |-> IF r.kind = "error" THEN Num(r.status) ELSE Undefined]

\* A request interceptor without the `if (token)` test: with no token stored
\* it sends "Bearer null".
requestInterceptorNoTest(ls) ==
  Str("Bearer " \o StringOf(getItem(ls, "auth_token")).v)

\* The request interceptor: the Authorization header it sets on the request.
requestInterceptor(ls) == BearerHeader(getItem(ls, "auth_token"))

\* A test that takes 403 for 401 as well.
IsUnauthorizedOrForbidden(r) == r.kind = "error" /\ r.status \in {401, 403}

\* error.response?.status === 401
IsUnauthorized(r) == r.kind = "error" /\ r.status = 401

\* A 401 branch that removes the token and leaves the stored user.
clearTokenOnly(ls) == removeItem(ls, "auth_token")

\* The 401 branch of the response interceptor, up to its first await.
clearStoredTokens(ls) == removeItem(removeItem(ls, "auth_token"), "user")

\* What a method's try block gives for the body of a 2xx answer.
Ret(v) == [outcome |-> "returned", value |-> v]
Thr(e) == [outcome |-> "threw", value |-> e]

\* A method that returns the whole body, the .data of the envelope forgotten.
unwrapBody(body) == Ret(body)

\* return response.data.data
unwrapData(body) == Ret(Get(body, "data"))

\* getTasks: response.data.data || []
getTasks(body) == Ret(Or(Get(body, "data"), Arr(<<>>)))

\* A mapping that copies has_next into has_prev.
mapPaginationPrevFromNext(p) ==
  Obj([page |-> Get(p, "current_page"), limit |-> Get(p, "page_size"),
       total_count |-> Get(p, "total_count"), total_pages |-> Get(p, "total_pages"),
       has_next |-> Get(p, "has_next"), has_prev |-> Get(p, "has_next")])

\* getHistory: the envelope re-shaped, the pagination fields renamed.
mapPagination(p) ==
  Obj([page |-> Get(p, "current_page"), limit |-> Get(p, "page_size"),
       total_count |-> Get(p, "total_count"), total_pages |-> Get(p, "total_pages"),
       has_next |-> Get(p, "has_next"), has_prev |-> Get(p, "has_prev")])

getHistory(body) ==
  LET data == Get(body, "data")
  IN  IF ~CanRead(data) THEN Thr(PropertyTypeError)
      ELSE IF ~CanRead(Get(data, "pagination")) THEN Thr(PropertyTypeError)
      ELSE Ret(Obj([success |-> Get(body, "success"),
                    data |-> Get(data, "items"),
                    pagination |-> mapPagination(Get(data, "pagination")),
                    popup |-> Get(body, "popup"),
                    error |-> Get(body, "error")]))

\* getNotifications: return response.data
getNotifications(body) == Ret(body)

\* markNotificationAsRead: response.data.data || response.data
markNotificationAsRead(body) == Ret(Or(Get(body, "data"), body))

\* getUnreadCount: response.data.data.count
getUnreadCount(body) ==
  IF ~CanRead(Get(body, "data")) THEN Thr(PropertyTypeError)
  ELSE Ret(Get(Get(body, "data"), "count"))

\* deleteTask, deleteHistoryEntry: the answer is awaited and dropped.
deleteVoid(body) == Ret(Undefined)

MethodTry(m, body) ==
  CASE m = "getTasks" -> getTasks(body)
    [] m = "getHistory" -> getHistory(body)
    [] m = "getNotifications" -> getNotifications(body)
    [] m = "markNotificationAsRead" -> markNotificationAsRead(body)
    [] m = "getUnreadCount" -> getUnreadCount(body)
    [] m \in {"deleteTask", "deleteHistoryEntry"} -> deleteVoid(body)
    [] OTHER -> unwrapData(body)

\* What getHealth returns from its catch block.
HealthDown == Obj([status |-> Str("down"), service |-> Str("todo-app-backend")])

\* Catch blocks of which getTasks' also swallows the error and returns [].
MethodCatchSwallowed(m, e) ==
  IF m = "getHealth" THEN Ret(HealthDown)
  ELSE IF m = "getTasks" THEN Ret(Arr(<<>>))
  ELSE Thr(e)

\* The catch block of a method: every one logs the error; getHealth returns
\* a status, all others throw the error again.
MethodCatch(m, e) ==
  IF m = "getHealth" THEN Ret(HealthDown) ELSE Thr(e)

\* A method is invoked: the request interceptor runs and the one HTTP
\* request of the method is sent.
IssueRequest(m, ls) ==
  [IdleCall EXCEPT !.op = m, !.pc = "http",
                   !.header = requestInterceptor(ls), !.sent = 1]

ApiCall(c, m) ==
  /\ Free(c)
  /\ calls' = [calls EXCEPT ![c] = IssueRequest(m, localStorage)]
  /\ UNCHANGED <<cookieJar, localStorage, location, formVars, histVars, pageVars>>

\* A 2xx answer arrives: the response interceptor passes it on and the
\* method's try block finishes (its catch block runs if the try block throws).
ApiSucceed(c, r) ==
  /\ calls[c].pc = "http"
  /\ calls[c].op \in ApiMethods
  /\ r \in ApiOutcomes(calls[c].op)
  /\ r.kind = "success"
  /\ LET try == MethodTry(calls[c].op, r.body)
         res == IF try.outcome = "threw" THEN MethodCatch(calls[c].op, try.value) ELSE try
     IN  calls' = [calls EXCEPT ![c].pc = "done", ![c].header = Undefined, ![c].resp = r,
                     ![c].logged = IF try.outcome = "threw" THEN {"method"} ELSE {},
                     ![c].outcome = res.outcome, ![c].value = res.value]
  /\ UNCHANGED <<cookieJar, localStorage, location, formVars, histVars, pageVars>>

\* The call fails with a status other than 401, or with no answer: the
\* response interceptor logs and rejects, the method's catch block runs.
ApiFail(c, r) ==
  /\ calls[c].pc = "http"
  /\ calls[c].op \in ApiMethods
  /\ r \in ApiOutcomes(calls[c].op)
  /\ r.kind # "success"
  /\ ~IsUnauthorized(r)
  /\ LET res == MethodCatch(calls[c].op, AxiosError(r))
     IN  calls' = [calls EXCEPT ![c].pc = "done", ![c].header = Undefined, ![c].resp = r,
                     ![c].logged = {"interceptor", "method"},
                     ![c].outcome = res.outcome, ![c].value = res.value]
  /\ UNCHANGED <<cookieJar, localStorage, location, formVars, histVars, pageVars>>

\* The call is answered 401: the response interceptor logs, clears the
\* stored tokens and awaits the session-expired alert.
ApiUnauthorized(c, r) ==
  /\ calls[c].pc = "http"
  /\ calls[c].op \in ApiMethods
  /\ r \in ApiOutcomes(calls[c].op)
  /\ IsUnauthorized(r)
  /\ localStorage' = clearStoredTokens(localStorage)
  /\ calls' = [calls EXCEPT ![c].pc = "alert", ![c].header = Undefined, ![c].resp = r,
                            ![c].logged = {"interceptor"}]
  /\ UNCHANGED <<cookieJar, location, formVars, histVars, pageVars>>

\* The alert was shown or could not be shown: the interceptor sets
\* window.location.href and rejects, the method's catch block runs.
ApiRedirect(c) ==
  /\ calls[c].pc = "alert"
  /\ location' = "/login"
  /\ LET res == MethodCatch(calls[c].op, AxiosError(calls[c].resp))
     IN  calls' = [calls EXCEPT ![c].pc = "done",
                     ![c].logged = calls[c].logged \cup {"method"},
                     ![c].outcome = res.outcome, ![c].value = res.value]
  /\ UNCHANGED <<cookieJar, localStorage, formVars, histVars, pageVars>>

\* The user follows a link to another page.
Pages == {"/login", "/tasks"}

Navigate(p) ==
  /\ p \in Pages
  /\ p # location
  /\ location' = p
  /\ UNCHANGED <<cookieJar, localStorage, calls, formVars, histVars, pageVars>>

\* ---------------------------------------------------------- form text
\* A string of a form field, as the three runs that trim() and length see:
\* leading whitespace, the text from the first to the last character that is
\* not whitespace, trailing whitespace. A string of whitespace alone has no
\* core and no trailing run.
MaxPad == 1

ModalTitleMax == 200
ModalDescriptionMax == 1000
FormTitleMax == 200
FormDescriptionMax == 2000

TextOf(lead, core, trail) == [lead |-> lead, core |-> core, trail |-> trail]
EmptyText == TextOf(0, 0, 0)

\* s.length
Length(s) == s.lead + s.core + s.trail
\* s.trim()
trim(s) == TextOf(0, s.core, 0)
\* !s, for a string: only the empty string is falsy.
IsEmptyString(s) == Length(s) = 0

TitleCores == {0, 1, ModalTitleMax - 1, ModalTitleMax, ModalTitleMax + 1}
Titles ==
  {TextOf(l, c, r) : l \in 0..MaxPad, c \in TitleCores, r \in 0..MaxPad}
    \ {TextOf(l, 0, r) : l \in 0..MaxPad, r \in 1..MaxPad}

DescriptionCores ==
  {0, 1, ModalDescriptionMax, ModalDescriptionMax + 1,
   FormDescriptionMax, FormDescriptionMax + 1}
Descriptions == {TextOf(0, c, 0) : c \in DescriptionCores} \cup {TextOf(0, 1, 1)}

\* The task prop of a form that edits a task.
EditTasks ==
  {[id |-> "task1", title |-> TextOf(0, 1, 0), description |-> Null,
    priority |-> "HIGH", status |-> "IN_PROGRESS", tags |-> <<"work">>,
    createdAt |-> "2024-01-01"],
   [id |-> "task2", title |-> TextOf(0, ModalTitleMax, 1),
    description |-> TextOf(0, ModalDescriptionMax + 1, 0),
    priority |-> "LOW", status |-> "COMPLETED", tags |-> <<>>,
    createdAt |-> "2024-01-02"],
   [id |-> "task3", title |-> TextOf(0, 1, 0), description |-> TextOf(0, 1, 0),
    priority |-> "MEDIUM", status |-> "NOT_STARTED",
    tags |-> <<"Work", "Personal", "Shopping", "Health", "Finance">>,
    createdAt |-> "2024-01-03"],
   [id |-> "task4", title |-> TextOf(1, ModalTitleMax + 1, 0),
    description |-> TextOf(0, FormDescriptionMax + 1, 0),
    priority |-> "VERY_IMPORTANT", status |-> "NOT_STARTED", tags |-> <<>>,
    createdAt |-> "2024-01-04"]}

\* x || '' for a description that may be null.
TextOrEmpty(x) == IF x = Null THEN EmptyText ELSE x

\* What the promise of the onSubmit prop of TaskModal may reject with.
SubmitErrors == {Error(Str("Network Error")), Str("unavailable")}

NoErrors == [title |-> "", description |-> "", tags |-> ""]

ClosedForm ==
  [component |-> "none", priority |-> "MEDIUM", tags |-> <<>>,
   isSubmitting |-> FALSE, error |-> "", errors |-> NoErrors,
   pending |-> 0, out |-> <<>>]

\* A call of a callback prop, as recorded in form.out, the callbacks the
\* latest handler run has called.
CallOf(cb, arg) == [cb |-> cb, arg |-> arg]

\* ----------------------------------------------------------- TaskModal
MaxPending == 1

\* The form state of a TaskModal that is mounted or whose task prop changes.
ModalOpen(task) ==
  /\ task \in EditTasks \cup {Undefined}
  /\ formTask' = task
  /\ text' = IF task = Undefined
             THEN [title |-> EmptyText, description |-> EmptyText]
             ELSE [title |-> task.title, description |-> TextOrEmpty(task.description)]
  /\ form' = [ClosedForm EXCEPT
                !.component = "TaskModal",
                !.priority = IF task = Undefined THEN "MEDIUM" ELSE task.priority,
                !.tags = IF task = Undefined THEN <<>> ELSE task.tags]
  /\ UNCHANGED <<authVars, histVars, pageVars>>

\* onChange of the title input and of the description textarea. The input
\* takes at most maxLength={200} characters and the textarea at most
\* maxLength={1000}; a longer text can only come from the task prop.
ModalSetTitle(v) ==
  /\ form.component = "TaskModal"
  /\ v \in Titles
  /\ Length(v) <= ModalTitleMax
  /\ text' = [text EXCEPT !.title = v]
  /\ form' = [form EXCEPT !.out = <<>>]
  /\ UNCHANGED <<formTask, authVars, histVars, pageVars>>

ModalSetDescription(v) ==
  /\ form.component = "TaskModal"
  /\ v \in Descriptions
  /\ Length(v) <= ModalDescriptionMax
  /\ text' = [text EXCEPT !.description = v]
  /\ form' = [form EXCEPT !.out = <<>>]
  /\ UNCHANGED <<formTask, authVars, histVars, pageVars>>

\* A validation without the test of the description's length.
ModalValidateTitleOnly(title, description) ==
  IF IsEmptyString(trim(title)) THEN "Title is required"
  ELSE IF Length(title) > ModalTitleMax THEN "Title must be less than 200 characters"
  ELSE ""

\* The validation of TaskModal.handleSubmit: the error it sets, "" if none.
ModalValidate(title, description) ==
  IF IsEmptyString(trim(title)) THEN "Title is required"
  ELSE IF Length(title) > ModalTitleMax THEN "Title must be less than 200 characters"
  ELSE IF Length(description) > ModalDescriptionMax
    THEN "Description must be less than 1000 characters"
  ELSE ""

\* The task data TaskModal passes to onSubmit.
ModalTaskData(title, description, priority, tags) ==
  [title |-> trim(title),
   description |-> IF IsEmptyString(trim(description)) THEN Undefined ELSE trim(description),
   priority |-> priority, dueDate |-> Undefined, tags |-> tags]

\* handleSubmit, up to its await of onSubmit.
ModalHandleSubmit ==
  /\ form.component = "TaskModal"
  /\ form.pending < MaxPending
  /\ LET e == ModalValidate(text.title, text.description)
     IN  form' = IF e # ""
                 THEN [form EXCEPT !.error = e, !.out = <<>>]
                 ELSE [form EXCEPT !.error = "", !.isSubmitting = TRUE,
                         !.pending = form.pending + 1,
                         !.out = <<CallOf("onSubmit",
                                     ModalTaskData(text.title, text.description,
                                                   form.priority, form.tags))>>]
  /\ UNCHANGED <<text, formTask, authVars, histVars, pageVars>>

\* handleSubmit, after onSubmit resolved: onClose is called.
ModalSubmitResolved ==
  /\ form.component = "TaskModal"
  /\ form.pending > 0
  /\ form' = [form EXCEPT !.isSubmitting = FALSE, !.pending = form.pending - 1,
                          !.out = <<CallOf("onClose", Undefined)>>]
  /\ UNCHANGED <<text, formTask, authVars, histVars, pageVars>>

\* A handleSubmit that, after onSubmit rejected, closes the modal and clears
\* what was entered.
ModalSubmitRejectedClosing(err) ==
  /\ form.component = "TaskModal"
  /\ form.pending > 0
  /\ err \in SubmitErrors
  /\ form' = [form EXCEPT !.isSubmitting = FALSE, !.pending = form.pending - 1,
                          !.tags = <<>>, !.out = <<CallOf("onClose", Undefined)>>]
  /\ text' = [title |-> EmptyText, description |-> EmptyText]
  /\ UNCHANGED <<formTask, authVars, histVars, pageVars>>

\* handleSubmit, after onSubmit rejected with err: the error is shown.
ModalSubmitRejected(err) ==
  /\ form.component = "TaskModal"
  /\ form.pending > 0
  /\ err \in SubmitErrors
  /\ form' = [form EXCEPT
                !.error = IF err.t = "error" THEN err.message.v ELSE "Failed to save task",
                !.isSubmitting = FALSE, !.pending = form.pending - 1, !.out = <<>>]
  /\ UNCHANGED <<text, formTask, authVars, histVars, pageVars>>

\* ------------------------------------------------------------ TaskForm
FormOpen(task) ==
  /\ task \in EditTasks \cup {Undefined}
  /\ formTask' = task
  /\ text' = IF task = Undefined
             THEN [title |-> EmptyText, description |-> EmptyText]
             ELSE [title |-> task.title, description |-> TextOrEmpty(task.description)]
  /\ form' = [ClosedForm EXCEPT
                !.component = "TaskForm",
                !.tags = IF task = Undefined THEN <<>> ELSE task.tags]
  /\ UNCHANGED <<authVars, histVars, pageVars>>

\* onChange of the title input (maxLength={200}) and of the description
\* textarea (maxLength={2000}).
FormSetTitle(v) ==
  /\ form.component = "TaskForm"
  /\ v \in Titles
  /\ Length(v) <= FormTitleMax
  /\ text' = [text EXCEPT !.title = v]
  /\ form' = [form EXCEPT !.out = <<>>]
  /\ UNCHANGED <<formTask, authVars, histVars, pageVars>>

FormSetDescription(v) ==
  /\ form.component = "TaskForm"
  /\ v \in Descriptions
  /\ Length(v) <= FormDescriptionMax
  /\ text' = [text EXCEPT !.description = v]
  /\ form' = [form EXCEPT !.out = <<>>]
  /\ UNCHANGED <<formTask, authVars, histVars, pageVars>>

\* validateForm: the errors it sets.
FormTitleError(title) ==
  IF IsEmptyString(trim(title)) THEN "Title is required"
  ELSE IF Length(trim(title)) > FormTitleMax THEN "Title must be 200 characters or less"
  ELSE ""

FormDescriptionError(description) ==
  IF Length(description) > FormDescriptionMax
  THEN "Description must be 2000 characters or less"
  ELSE ""

validateForm(title, description) ==
  [title |-> FormTitleError(title), description |-> FormDescriptionError(description),
   tags |-> ""]

\* classifyPriority({title, dueDate: undefined}): the classifier is a library
\* of its own; its result is kept as the application it is.
classifyPriority(title) == [fn |-> "classifyPriority", title |-> title, dueDate |-> Undefined]

\* The task TaskForm passes to onSubmit.
FormNewTask(task, title, description, tags) ==
  [id |-> IF task = Undefined THEN "randomUUID" ELSE task.id,
   title |-> trim(title),
   description |-> IF IsEmptyString(trim(description)) THEN Undefined ELSE trim(description),
   dueDate |-> Undefined,
   priority |-> classifyPriority(trim(title)),
   status |-> IF task = Undefined THEN "NOT_STARTED" ELSE task.status,
   tags |-> tags,
   createdAt |-> IF task = Undefined THEN "now" ELSE task.createdAt,
   updatedAt |-> "now"]

\* A handleSubmit of TaskForm that keeps the fields after a submit in create
\* mode as well.
FormHandleSubmitKeeping ==
  /\ form.component = "TaskForm"
  /\ LET errs == validateForm(text.title, text.description)
     IN  IF errs # NoErrors
         THEN form' = [form EXCEPT !.errors = errs, !.out = <<>>]
         ELSE form' = [form EXCEPT
                         !.errors = NoErrors,
                         !.out = <<CallOf("onSubmit",
                                     FormNewTask(formTask, text.title,
                                                 text.description, form.tags))>>]
  /\ UNCHANGED <<text, formTask, authVars, histVars, pageVars>>

\* handleSubmit of TaskForm.
FormHandleSubmit ==
  /\ form.component = "TaskForm"
  /\ LET errs == validateForm(text.title, text.description)
     IN  IF errs # NoErrors
         THEN /\ form' = [form EXCEPT !.errors = errs, !.out = <<>>]
              /\ UNCHANGED text
         ELSE /\ form' = [form EXCEPT
                            !.errors = NoErrors,
                            !.tags = IF formTask = Undefined THEN <<>> ELSE form.tags,
                            !.out = <<CallOf("onSubmit",
                                        FormNewTask(formTask, text.title,
                                                    text.description, form.tags))>>]
              /\ text' = IF formTask = Undefined
                         THEN [title |-> EmptyText, description |-> EmptyText]
                         ELSE text
  /\ UNCHANGED <<formTask, authVars, histVars, pageVars>>

\* ---------------------------------------------------------------- tags
\* The names of the standard tag categories.
STANDARD_TAGS ==
  {"Work", "Personal", "Shopping", "Health", "Finance", "Learning", "Urgent"}

\* The number of tags a task may carry.
MaxTags == 5

\* tags.includes(tag)
Includes(tags, tag) == \E i \in 1..Len(tags) : tags[i] = tag
\* tags.filter((t) => t !== tag)
Without(tags, tag) == SelectSeq(tags, LAMBDA t : t # tag)

\* A tag button of TaskModal that is enabled whatever is selected.
TagButtonAlwaysEnabled(selectedTags, tag) == TRUE

\* A tag button of TaskModal is disabled when the tag is not selected and
\* five tags are: a disabled button dispatches no click.
TagButtonEnabled(selectedTags, tag) ==
  ~(~Includes(selectedTags, tag) /\ Len(selectedTags) >= MaxTags)

\* toggleTag, run by the click on the button of a standard tag.
ModalToggleTag(tag) ==
  /\ form.component = "TaskModal"
  /\ tag \in STANDARD_TAGS
  /\ TagButtonEnabled(form.tags, tag)
  /\ form' = [form EXCEPT
                !.tags = IF Includes(form.tags, tag) THEN Without(form.tags, tag)
                         ELSE Append(form.tags, tag),
                !.out = <<>>]
  /\ UNCHANGED <<text, formTask, authVars, histVars, pageVars>>

\* validateSingleTag(tags, tag) of the task-tagging library: a tag that is
\* already selected is rejected, and so is a sixth tag.
validateSingleTag(tags, tag) ==
  IF Includes(tags, tag) THEN [valid |-> FALSE, errors |-> <<"Tag already added">>]
  ELSE IF Len(tags) >= MaxTags
    THEN [valid |-> FALSE, errors |-> <<"Maximum 5 tags allowed">>]
  ELSE [valid |-> TRUE, errors |-> <<>>]

\* getAvailableTags(tags) of the task-tagging library: the tags offered as
\* suggestions. Every standard tag may be offered; the text of the tag input
\* only narrows the list.
getAvailableTags(tags) == STANDARD_TAGS

\* handleAddTag, run by the click on a suggestion; the tag input and its
\* suggestions are rendered while fewer than five tags are selected.
FormAddTag(tag) ==
  /\ form.component = "TaskForm"
  /\ Len(form.tags) < MaxTags
  /\ tag \in getAvailableTags(form.tags)
  /\ LET validation == validateSingleTag(form.tags, tag)
     IN  form' = IF ~validation.valid
                 THEN [form EXCEPT !.errors.tags = validation.errors[1], !.out = <<>>]
                 ELSE [form EXCEPT !.tags = Append(form.tags, tag),
                                   !.errors.tags = "", !.out = <<>>]
  /\ UNCHANGED <<text, formTask, authVars, histVars, pageVars>>

\* handleRemoveTag, run by the remove button of the chip of a selected tag.
FormRemoveTag(tagToRemove) ==
  /\ form.component = "TaskForm"
  /\ Includes(form.tags, tagToRemove)
  /\ form' = [form EXCEPT !.tags = Without(form.tags, tagToRemove),
                          !.errors.tags = "", !.out = <<>>]
  /\ UNCHANGED <<text, formTask, authVars, histVars, pageVars>>

\* ------------------------------------------------------- the tasks page
\* The strings the search reads are sequences of characters, so that
\* trim(), toLowerCase() and includes() are computed on them.
UpperCase ==
  <<"A", "B", "C", "D", "E", "F", "G", "H", "I", "J", "K", "L", "M",
    "N", "O", "P", "Q", "R", "S", "T", "U", "V", "W", "X", "Y", "Z">>
LowerCase ==
  <<"a", "b", "c", "d", "e", "f", "g", "h", "i", "j", "k", "l", "m",
    "n", "o", "p", "q", "r", "s", "t", "u", "v", "w", "x", "y", "z">>

\* s.toLowerCase()
toLowerCase(s) ==
  [i \in 1..Len(s) |->
     IF \E k \in 1..26 : UpperCase[k] = s[i]
     THEN LowerCase[CHOOSE k \in 1..26 : UpperCase[k] = s[i]]
     ELSE s[i]]

\* s.includes(q)
includes(s, q) ==
  \E i \in 0..(Len(s) - Len(q)) : SubSeq(s, i + 1, i + Len(q)) = q

\* s.trim(), for a sequence of characters.
trimChars(s) ==
  IF \A i \in 1..Len(s) : s[i] = " " THEN <<>>
  ELSE LET first == CHOOSE i \in 1..Len(s) :
                      s[i] # " " /\ \A j \in 1..(i - 1) : s[j] = " "
           last == CHOOSE i \in 1..Len(s) :
                     s[i] # " " /\ \A j \in (i + 1)..Len(s) : s[j] = " "
       IN  SubSeq(s, first, last)

\* A description or a tag list that is present; one that is missing is
\* Undefined.
Text(chars) == [t |-> "string", chars |-> chars]
TagList(items) == [t |-> "array", items |-> items]

\* The tasks of the store.
TaskA ==
  [id |-> "A", title |-> <<"B", "u", "y", " ", "m", "i", "l", "k">>, description |-> Undefined,
   status |-> "COMPLETED", priority |-> "LOW", tags |-> Undefined,
   dueDate |-> "none", createdAt |-> 1]
TaskB ==
  [id |-> "B", title |-> <<"W", "r", "i", "t", "e", " ", "r", "e", "p", "o", "r", "t">>,
   description |-> Text(<<"M", "o", "n", "t", "h", "l", "y">>),
   status |-> "NOT_STARTED", priority |-> "HIGH",
   tags |-> TagList(<<<<"W", "o", "r", "k">>>>),
   dueDate |-> "none", createdAt |-> 2]
TaskC ==
  [id |-> "C", title |-> <<"C", "a", "l", "l", " ", "B", "o", "b">>,
   description |-> Text(<<"A", "b", "o", "u", "t", " ", "t", "h", "e", " ", "R", "E", "P", "O", "R", "T">>),
   status |-> "IN_PROGRESS", priority |-> "MEDIUM", tags |-> TagList(<<>>),
   dueDate |-> "none", createdAt |-> 3]

TaskLists == {<<>>, <<TaskA, TaskB>>, <<TaskC, TaskB, TaskA>>}

\* The texts typed into the search box.
SearchQueries ==
  {<<>>, <<" ">>, <<"r", "e", "p", "o", "r", "t">>, <<"R", "E", "P", "O", "R", "T">>,
   <<"r", "e", "p", "o", "r", "t", " ">>, <<"m", "i", "l", "k">>,
   <<"w", "o", "r", "k">>, <<"z", "z", "z">>}

TaskStatuses == {"NOT_STARTED", "IN_PROGRESS", "COMPLETED"}
Priorities == {"LOW", "MEDIUM", "HIGH", "VERY_IMPORTANT"}
DueDateBuckets == {"all", "overdue", "today", "this_week"}
SortFields == {"createdAt", "priority"}
SortDirections == {"asc", "desc"}

\* useFilters: the filter state a page starts with.
NoFilters == [status |-> {}, priority |-> {}, tags |-> {}, dueDate |-> "all"]

\* useFilters: a task passes a filter that selects nothing, or that selects
\* its status, its priority, one of its tags, its due-date bucket.
PassesFilters(task, filterState) ==
  /\ filterState.status = {} \/ task.status \in filterState.status
  /\ filterState.priority = {} \/ task.priority \in filterState.priority
  /\ \/ filterState.tags = {}
     \/ /\ task.tags # Undefined
        /\ \E i \in 1..Len(task.tags.items) : task.tags.items[i] \in filterState.tags
  /\ filterState.dueDate = "all" \/ task.dueDate = filterState.dueDate

\* useFilters(tasks).filteredTasks
filteredTasks(tasks, filterState) ==
  SelectSeq(tasks, LAMBDA task : PassesFilters(task, filterState))

PriorityRank(p) ==
  CASE p = "LOW" -> 1 [] p = "MEDIUM" -> 2 [] p = "HIGH" -> 3 [] OTHER -> 4

SortKey(task, field) ==
  IF field = "priority" THEN PriorityRank(task.priority) ELSE task.createdAt

\* useSort(filteredTasks).sortedTasks
sortedTasks(tasks, sortState) ==
  SortSeq(tasks,
          LAMBDA a, b :
            IF sortState.direction = "asc"
            THEN SortKey(a, sortState.field) < SortKey(b, sortState.field)
            ELSE SortKey(a, sortState.field) > SortKey(b, sortState.field))

\* A search that reads the title alone.
matchesTitleOnly(task, searchQuery) ==
  IF trimChars(searchQuery) = <<>> THEN TRUE
  ELSE includes(toLowerCase(task.title), toLowerCase(searchQuery))

\* The predicate of the search: task.description and task.tags may be missing.
matchesSearch(task, searchQuery) ==
  IF trimChars(searchQuery) = <<>> THEN TRUE
  ELSE LET query == toLowerCase(searchQuery)
       IN  \/ includes(toLowerCase(task.title), query)
           \/ /\ task.description # Undefined
              /\ includes(toLowerCase(task.description.chars), query)
           \/ /\ task.tags # Undefined
              /\ \E i \in 1..Len(task.tags.items) :
                   includes(toLowerCase(task.tags.items[i]), query)

\* searchedTasks, the tasks prop of the TaskList.
searchedTasks(sorted, searchQuery) ==
  SelectSeq(sorted, LAMBDA task : matchesSearch(task, searchQuery))

\* The render of the page: filter, then sort, then search.
Render(p) ==
  [p EXCEPT !.shown =
     searchedTasks(sortedTasks(filteredTasks(p.tasks, p.filterState), p.sortState),
                   p.searchQuery)]

\* The call of createTask / updateTask of useTasks the page awaits.
IdleStore == [pc |-> "idle", op |-> "none", id |-> Undefined, request |-> Undefined]

TasksPageInit ==
  tasksPage =
    [tasks |-> <<>>, filterState |-> NoFilters,
     sortState |-> [field |-> "createdAt", direction |-> "desc"],
     searchQuery |-> <<>>, shown |-> <<>>, log |-> <<>>,
     showCreateModal |-> FALSE, editingTask |-> Null, store |-> IdleStore]

\* useTasks: the store holds the tasks the backend listed.
TasksLoaded(list) ==
  /\ list \in TaskLists
  /\ tasksPage' = Render([tasksPage EXCEPT !.tasks = list, !.log = <<>>])
  /\ UNCHANGED <<authVars, formVars, histVars, notTasksPage>>

\* toggleStatusFilter / togglePriorityFilter of useFilters, once for every
\* entry of the list the FilterDropdown hands over.
ToggleAll(selected, list) == (selected \ list) \cup (list \ selected)

\* onStatusChange of the FilterDropdown.
OnStatusChange(status) ==
  /\ status \in SUBSET TaskStatuses
  /\ tasksPage' = Render([tasksPage EXCEPT
                            !.filterState.status = ToggleAll(@, status), !.log = <<>>])
  /\ UNCHANGED <<authVars, formVars, histVars, notTasksPage>>

\* onPriorityChange of the FilterDropdown.
OnPriorityChange(priority) ==
  /\ priority \in SUBSET Priorities
  /\ tasksPage' = Render([tasksPage EXCEPT
                            !.filterState.priority = ToggleAll(@, priority), !.log = <<>>])
  /\ UNCHANGED <<authVars, formVars, histVars, notTasksPage>>

\* onDueDateChange of the FilterDropdown: the bucket is written to the console.
OnDueDateChange(dueDate) ==
  /\ dueDate \in DueDateBuckets
  /\ tasksPage' = Render([tasksPage EXCEPT
                            !.log = <<"Due date filter changed:", dueDate>>])
  /\ UNCHANGED <<authVars, formVars, histVars, notTasksPage>>

\* onClearAll of the FilterDropdown: clearAllFilters of useFilters.
OnClearAll ==
  /\ tasksPage' = Render([tasksPage EXCEPT !.filterState = NoFilters, !.log = <<>>])
  /\ UNCHANGED <<authVars, formVars, histVars, notTasksPage>>

\* onChange of the search box.
SetSearchQuery(q) ==
  /\ q \in SearchQueries
  /\ tasksPage' = Render([tasksPage EXCEPT !.searchQuery = q, !.log = <<>>])
  /\ UNCHANGED <<authVars, formVars, histVars, notTasksPage>>

\* onSortFieldChange and onToggleDirection of the SortControls.
SetSortField(field) ==
  /\ field \in SortFields
  /\ tasksPage' = Render([tasksPage EXCEPT !.sortState.field = field, !.log = <<>>])
  /\ UNCHANGED <<authVars, formVars, histVars, notTasksPage>>

ToggleDirection ==
  /\ tasksPage' = Render([tasksPage EXCEPT
                            !.sortState.direction = IF @ = "asc" THEN "desc" ELSE "asc",
                            !.log = <<>>])
  /\ UNCHANGED <<authVars, formVars, histVars, notTasksPage>>

\* -------------------------------------- the modals of the tasks page
\* The page renders one TaskModal to create a task (open while
\* showCreateModal) and one to edit a task (open while editingTask is set).
ModalIsOpen(p) == p.showCreateModal \/ p.editingTask # Null

\* The form state of a modal that opens on a task: the reset of its effect.
OpenedModal(task) ==
  /\ formTask' = task
  /\ text' = IF task = Undefined
             THEN [title |-> EmptyText, description |-> EmptyText]
             ELSE [title |-> task.title, description |-> TextOrEmpty(task.description)]
  /\ form' = [ClosedForm EXCEPT
                !.component = "TaskModal",
                !.priority = IF task = Undefined THEN "MEDIUM" ELSE task.priority,
                !.tags = IF task = Undefined THEN <<>> ELSE task.tags]

\* The click on the button that creates a task.
PageOpenCreate ==
  /\ ~ModalIsOpen(tasksPage)
  /\ tasksPage.store.pc # "pending"
  /\ tasksPage' = [tasksPage EXCEPT !.showCreateModal = TRUE, !.store = IdleStore]
  /\ OpenedModal(Undefined)
  /\ UNCHANGED <<authVars, histVars, notTasksPage>>

\* handleEditTask, for a task the store holds.
PageEditTask(task) ==
  /\ task \in EditTasks
  /\ ~ModalIsOpen(tasksPage)
  /\ tasksPage.store.pc # "pending"
  /\ tasksPage' = [tasksPage EXCEPT !.editingTask = task, !.store = IdleStore]
  /\ OpenedModal(task)
  /\ UNCHANGED <<authVars, histVars, notTasksPage>>

\* onChange of the title input of the open modal.
PageSetTitle(v) ==
  /\ ModalIsOpen(tasksPage)
  /\ ModalSetTitle(v)

\* onValueChange of the priority select of the open modal.
PageSetPriority(priority) ==
  /\ ModalIsOpen(tasksPage)
  /\ form.component = "TaskModal"
  /\ priority \in Priorities
  /\ form' = [form EXCEPT !.priority = priority, !.out = <<>>]
  /\ UNCHANGED <<text, formTask, authVars, histVars, pageVars>>

\* The request the page hands to createTask and to updateTask.
StoreRequest(taskData) ==
  [title |-> taskData.title, description |-> taskData.description,
   due_date |-> Undefined, tags |-> taskData.tags]

\* A handleCreateTask that closes the modal before createTask has settled.
handleCreateTaskOptimistic(p, taskData) ==
  [p EXCEPT !.showCreateModal = FALSE,
            !.store = [pc |-> "pending", op |-> "createTask", id |-> Undefined,
                       request |-> StoreRequest(taskData)]]

\* handleCreateTask, up to its await of createTask.
handleCreateTask(p, taskData) ==
  [p EXCEPT !.store = [pc |-> "pending", op |-> "createTask", id |-> Undefined,
                       request |-> StoreRequest(taskData)]]

\* handleUpdateTask, up to its await of updateTask; without a task that is
\* being edited it returns at once.
handleUpdateTask(p, taskData) ==
  IF p.editingTask = Null THEN [p EXCEPT !.store = [IdleStore EXCEPT !.pc = "resolved"]]
  ELSE [p EXCEPT !.store = [pc |-> "pending", op |-> "updateTask",
                            id |-> p.editingTask.id,
                            request |-> StoreRequest(taskData)]]

\* The submit of the open modal: handleSubmit of TaskModal, whose onSubmit is
\* handleCreateTask in the modal that creates and handleUpdateTask in the
\* modal that edits.
PageModalSubmit ==
  /\ ModalIsOpen(tasksPage)
  /\ form.component = "TaskModal"
  /\ ~form.isSubmitting
  /\ tasksPage.store.pc # "pending"
  /\ LET e == ModalValidate(text.title, text.description)
         taskData == ModalTaskData(text.title, text.description, form.priority, form.tags)
     IN  IF e # ""
         THEN /\ form' = [form EXCEPT !.error = e, !.out = <<>>]
              /\ UNCHANGED tasksPage
         ELSE /\ form' = [form EXCEPT !.error = "", !.isSubmitting = TRUE,
                                      !.pending = form.pending + 1,
                                      !.out = <<CallOf("onSubmit", taskData)>>]
              /\ tasksPage' = IF formTask = Undefined
                              THEN handleCreateTask(tasksPage, taskData)
                              ELSE handleUpdateTask(tasksPage, taskData)
  /\ UNCHANGED <<text, formTask, authVars, histVars, notTasksPage>>

\* createTask / updateTask resolved: the handler of the page closes its
\* modal, then handleSubmit of the modal calls onClose and ends the submit.
PageStoreResolved ==
  /\ tasksPage.store.pc = "pending"
  /\ tasksPage' = [tasksPage EXCEPT
                     !.store.pc = "resolved",
                     !.showCreateModal =
                       IF tasksPage.store.op = "createTask" THEN FALSE ELSE @,
                     !.editingTask =
                       IF tasksPage.store.op = "updateTask" THEN Null ELSE @]
  /\ form' = [form EXCEPT !.isSubmitting = FALSE, !.pending = form.pending - 1,
                          !.out = <<CallOf("onClose", Undefined)>>]
  /\ UNCHANGED <<text, formTask, authVars, histVars, notTasksPage>>

\* createTask / updateTask rejected: the handler of the page rejects, and
\* handleSubmit of the modal records the error and ends the submit.
PageStoreRejected(err) ==
  /\ tasksPage.store.pc = "pending"
  /\ err \in SubmitErrors
  /\ tasksPage' = [tasksPage EXCEPT !.store.pc = "rejected"]
  /\ form' = [form EXCEPT
                !.error = IF err.t = "error" THEN err.message.v ELSE "Failed to save task",
                !.isSubmitting = FALSE, !.pending = form.pending - 1, !.out = <<>>]
  /\ UNCHANGED <<text, formTask, authVars, histVars, notTasksPage>>

\* onOpenChange(false) of the Dialog (Escape, a click outside, the close
\* button): onClose of the open modal. The Cancel button calls the same
\* onClose, and is disabled while the submit is pending; the Dialog is not.
PageDismiss ==
  /\ ModalIsOpen(tasksPage)
  /\ tasksPage' = [tasksPage EXCEPT !.showCreateModal = FALSE, !.editingTask = Null]
  /\ form' = [form EXCEPT !.out = <<CallOf("onClose", Undefined)>>]
  /\ UNCHANGED <<text, formTask, authVars, histVars, notTasksPage>>

\* ---------------------------------------------------- the history page
\* The page numbers a backend pagination record may carry.
MaxPage == 3

\* The calls of fetchHistory the user may have in flight; the refetch that
\* follows a delete is issued whatever is in flight.
MaxFetches == 1

NoDelete == [pc |-> "idle", id |-> Undefined, page |-> 0]

\* The page as mounted, its first page fetched: pagination.page is the page
\* of the answer shown, entries the page whose entries are shown.
HistoryPageInit ==
  historyPage =
    [pagination |-> [page |-> 1], entries |-> [page |-> 1, fetched |-> 0],
     fetches |-> {}, issued |-> Undefined, del |-> NoDelete, alert |-> "none"]

\* fetchHistory(page) of useHistory: a call of getHistory for that page.
fetchHistory(h, page, by) ==
  [h EXCEPT !.fetches = @ \cup {[page |-> page, by |-> by]},
            !.issued = [page |-> page, by |-> by]]

\* handlePageChange, run by the pagination controls.
HistPageChange(page) ==
  /\ page \in 1..MaxPage
  /\ Cardinality(historyPage.fetches) < MaxFetches
  /\ historyPage' = fetchHistory(historyPage, page, "handlePageChange")
  /\ UNCHANGED <<authVars, formVars, histVars, notHistoryPage>>

\* handleRefresh
HistRefresh ==
  /\ Cardinality(historyPage.fetches) < MaxFetches
  /\ historyPage' = fetchHistory(historyPage, historyPage.pagination.page, "handleRefresh")
  /\ UNCHANGED <<authVars, formVars, histVars, notHistoryPage>>

\* A call of fetchHistory is answered: useHistory holds the entries and the
\* pagination of the answer.
HistFetchDone(f) ==
  /\ f \in historyPage.fetches
  /\ historyPage' = [historyPage EXCEPT
                       !.fetches = @ \ {f},
                       !.pagination = [page |-> f.page],
                       !.entries = [page |-> f.page,
                                    fetched |-> (historyPage.entries.fetched + 1) % 2],
                       !.issued = Undefined]
  /\ UNCHANGED <<authVars, formVars, histVars, notHistoryPage>>

\* A call of fetchHistory fails: useHistory keeps what it holds.
HistFetchFailed(f) ==
  /\ f \in historyPage.fetches
  /\ historyPage' = [historyPage EXCEPT !.fetches = @ \ {f}, !.issued = Undefined]
  /\ UNCHANGED <<authVars, formVars, histVars, notHistoryPage>>

\* A handleDeleteEntry whose refetch reads the page number when it is issued.
refetchAfterDeleteCurrent(h) == fetchHistory(h, h.pagination.page, "handleDeleteEntry")

\* The refetch of handleDeleteEntry: fetchHistory(pagination.page), with the
\* pagination of the render in which the delete was clicked.
refetchAfterDelete(h) == fetchHistory(h, h.del.page, "handleDeleteEntry")

\* handleDeleteEntry, up to its await of deleteHistoryEntry.
HistDelete(historyId) ==
  /\ historyPage.del.pc = "idle"
  /\ historyPage' = [historyPage EXCEPT
                       !.del = [pc |-> "deleting", id |-> historyId,
                                page |-> historyPage.pagination.page],
                       !.issued = Undefined, !.alert = "none"]
  /\ UNCHANGED <<authVars, formVars, histVars, notHistoryPage>>

\* deleteHistoryEntry resolved: the toast is shown and awaited.
HistDeleteSucceeded ==
  /\ historyPage.del.pc = "deleting"
  /\ historyPage' = [historyPage EXCEPT !.del.pc = "toast", !.alert = "success",
                                        !.issued = Undefined]
  /\ UNCHANGED <<authVars, formVars, histVars, notHistoryPage>>

\* The toast closed: the history is fetched again.
HistToastClosed ==
  /\ historyPage.del.pc = "toast"
  /\ historyPage' = [refetchAfterDelete(historyPage) EXCEPT !.del = NoDelete]
  /\ UNCHANGED <<authVars, formVars, histVars, notHistoryPage>>

\* deleteHistoryEntry rejected: the error is logged and shown.
HistDeleteFailed ==
  /\ historyPage.del.pc = "deleting"
  /\ historyPage' = [historyPage EXCEPT !.del = NoDelete, !.alert = "error",
                                        !.issued = Undefined]
  /\ UNCHANGED <<authVars, formVars, histVars, notHistoryPage>>

\* ---------------------------------------------- the notifications page
\* The calls of fetchNotifications, with those a pending mark-as-read will
\* issue, that may be in flight at the same time.
MaxNotifFetches == 2

NotificationFilters == {"all", "unread", "read"}

\* What getNotifications may return.
NotificationAnswers ==
  {[notifications |-> <<>>, unread_count |-> 0],
   [notifications |-> <<[id |-> "n1", read_at |-> Null]>>, unread_count |-> 1],
   [notifications |-> <<[id |-> "n1", read_at |-> Null],
                        [id |-> "n2", read_at |-> Str("2024-01-01")]>>,
    unread_count |-> 1]}

NoMark == [pc |-> "idle", unreadOnly |-> FALSE]

\* The page as mounted: its effect has called fetchNotifications once.
NotifPageInit ==
  notifPage =
    [notifications |-> <<>>, unreadCount |-> 0, loading |-> TRUE, filter |-> "all",
     fetches |-> {[seq |-> 1, unreadOnly |-> FALSE, overtaken |-> FALSE]},
     mark |-> NoMark, lastFulfilled |-> Undefined]

\* The calls of fetchNotifications in flight or about to be issued.
NotifInFlight(p) ==
  Cardinality(p.fetches) + (IF p.mark.pc = "pending" THEN 1 ELSE 0)

\* fetchNotifications, up to its await: loading is set and getNotifications
\* is called with unreadOnly = (filter === 'unread'), the filter being the
\* one of the render that made the function.
fetchNotifications(p, unreadOnly) ==
  [p EXCEPT !.loading = TRUE,
            !.fetches = @ \cup {[seq |-> Cardinality(p.fetches) + 1,
                                 unreadOnly |-> unreadOnly, overtaken |-> FALSE]}]

\* The click on a filter button: setFilter, then the effect on [filter].
NotifSetFilter(filter) ==
  /\ filter \in NotificationFilters
  /\ filter # notifPage.filter
  /\ NotifInFlight(notifPage) < MaxNotifFetches
  /\ notifPage' = fetchNotifications([notifPage EXCEPT !.filter = filter],
                                     filter = "unread")
  /\ UNCHANGED <<authVars, formVars, histVars, notNotifPage>>

\* The calls that stay in flight when call f completes, numbered in the
\* order they were issued; a call issued before f has been overtaken by it.
Remaining(fetches, f) ==
  LET rest == fetches \ {f}
  IN  {[g EXCEPT !.seq = Cardinality({h \in rest : h.seq <= g.seq}),
                 !.overtaken = g.overtaken \/ g.seq < f.seq] : g \in rest}

\* A completion that sets the list only for the call issued last.
applyIfIssuedLast(p, f, response) ==
  IF \A g \in p.fetches : g.seq <= f.seq
  THEN [p EXCEPT !.notifications = response.notifications,
                 !.unreadCount = response.unread_count]
  ELSE p

\* fetchNotifications after getNotifications resolved.
applyResponse(p, f, response) ==
  [p EXCEPT !.notifications = response.notifications,
            !.unreadCount = response.unread_count]

\* A call of fetchNotifications completes with an answer.
NotifFetchFulfilled(f, response) ==
  /\ f \in notifPage.fetches
  /\ response \in NotificationAnswers
  /\ notifPage' = [applyResponse(notifPage, f, response) EXCEPT
                     !.fetches = Remaining(@, f), !.loading = FALSE,
                     !.lastFulfilled = [response |-> response,
                                        overtaken |-> f.overtaken]]
  /\ UNCHANGED <<authVars, formVars, histVars, notNotifPage>>

\* A call of fetchNotifications fails: the error is logged and shown.
NotifFetchRejected(f) ==
  /\ f \in notifPage.fetches
  /\ notifPage' = [notifPage EXCEPT !.fetches = Remaining(@, f), !.loading = FALSE]
  /\ UNCHANGED <<authVars, formVars, histVars, notNotifPage>>

\* markAsRead / markAllAsRead, up to the await of the ApiClient call.
NotifMark ==
  /\ notifPage.mark.pc = "idle"
  /\ NotifInFlight(notifPage) < MaxNotifFetches
  /\ notifPage' = [notifPage EXCEPT
                     !.mark = [pc |-> "pending",
                               unreadOnly |-> notifPage.filter = "unread"]]
  /\ UNCHANGED <<authVars, formVars, histVars, notNotifPage>>

\* The ApiClient call resolved: fetchNotifications is called.
NotifMarkResolved ==
  /\ notifPage.mark.pc = "pending"
  /\ notifPage' = fetchNotifications([notifPage EXCEPT !.mark = NoMark],
                                     notifPage.mark.unreadOnly)
  /\ UNCHANGED <<authVars, formVars, histVars, notNotifPage>>

\* The ApiClient call rejected: the error is logged.
NotifMarkRejected ==
  /\ notifPage.mark.pc = "pending"
  /\ notifPage' = [notifPage EXCEPT !.mark = NoMark]
  /\ UNCHANGED <<authVars, formVars, histVars, notNotifPage>>

\* ------------------------------------------ the signup and login forms
MIN_PASSWORD_LENGTH == 8

\* The characters \s matches, among those typed.
WhiteSpace == {" ", "\t"}

\* [^\s@]+ : one or more characters, none of them whitespace or "@".
NoSpaceNoAt(s) ==
  /\ Len(s) >= 1
  /\ \A i \in 1..Len(s) : s[i] \notin WhiteSpace /\ s[i] # "@"

\* EMAIL_REGEX.test(email), for /^[^\s@]+@[^\s@]+\.[^\s@]+$/ : the whole
\* string is a run, "@", a run, ".", a run.
EMAIL_REGEX(email) ==
  \E i, k \in 1..Len(email) :
    /\ i < k
    /\ email[i] = "@"
    /\ email[k] = "."
    /\ NoSpaceNoAt(SubSeq(email, 1, i - 1))
    /\ NoSpaceNoAt(SubSeq(email, i + 1, k - 1))
    /\ NoSpaceNoAt(SubSeq(email, k + 1, Len(email)))

\* email.trim() is the empty string: trim() removes whitespace of any kind.
IsBlank(s) == \A i \in 1..Len(s) : s[i] \in WhiteSpace

\* validateEmail, the same in SignupForm and LoginForm.
validateEmail(email) ==
  IF IsBlank(email) THEN "Email is required"
  ELSE IF ~EMAIL_REGEX(email) THEN "Invalid email format"
  ELSE ""

\* validatePassword of LoginForm.
LoginValidatePassword(password) ==
  IF password = <<>> THEN "Password is required" ELSE ""

\* A validatePassword of SignupForm without the test of the length.
SignupValidatePasswordNotEmpty(password) ==
  IF password = <<>> THEN "Password is required" ELSE ""

\* validatePassword of SignupForm.
SignupValidatePassword(password) ==
  IF password = <<>> THEN "Password is required"
  ELSE IF Len(password) < MIN_PASSWORD_LENGTH
    THEN "Password must be at least 8 characters"
  ELSE ""

validatePassword(component, password) ==
  IF component = "SignupForm" THEN SignupValidatePassword(password)
  ELSE LoginValidatePassword(password)

\* What is typed into the email and the password input.
Emails ==
  {<<>>,
   <<" ">>,
   <<"a", "@", "b", ".", "c">>,
   <<"a", "@", "b">>,
   <<"@", "b", ".", "c">>,
   <<"a", "@">>,
   <<"a", " ", "b", "@", "c", ".", "d">>,
   <<"a", "@", "b", ".", "c", " ">>,
   <<" ", "a", "@", "b", ".", "c">>,
   <<"a", "@", "@", "b", ".", "c">>,
   <<"a", "@", "b", ".", "c", ".", "d">>,
   <<"a", "@", ".", "c">>,
   <<"a", "@", "b", ".">>,
   <<"a", ".", "b", "@", "c">>,
   <<"a", "b", ".", "c">>}
Passwords ==
  {<<>>,
   <<"p">>,
   <<"1", "2", "3", "4", "5", "6", "7">>,
   <<"1", "2", "3", "4", "5", "6", "7", "8">>,
   <<" ", " ", " ", " ", " ", " ", " ", " ">>,
   <<"1", "2", "3", "4", "5", "6", "7", "8", "9">>}

AuthForms == {"SignupForm", "LoginForm"}

UnmountedAuthForm ==
  [component |-> "none", formData |-> [email |-> <<>>, password |-> <<>>],
   errors |-> [email |-> "", password |-> ""],
   touched |-> [email |-> FALSE, password |-> FALSE],
   isLoading |-> FALSE, pending |-> 0, out |-> <<>>]

AuthFormInit == authForm = UnmountedAuthForm

\* The signup page or the login page mounts its form.
AuthFormMount(component) ==
  /\ component \in AuthForms
  /\ authForm' = [UnmountedAuthForm EXCEPT !.component = component]
  /\ UNCHANGED <<authVars, formVars, histVars, notAuthForm>>

\* handleChange of the input of that name.
AuthFormChange(name, value) ==
  /\ authForm.component \in AuthForms
  /\ \/ name = "email" /\ value \in Emails
     \/ name = "password" /\ value \in Passwords
  /\ LET error == IF name = "email" THEN validateEmail(value)
                  ELSE validatePassword(authForm.component, value)
     IN  authForm' = [authForm EXCEPT
                        !.formData[name] = value,
                        !.errors[name] = IF authForm.touched[name] THEN error ELSE @,
                        !.out = <<>>]
  /\ UNCHANGED <<authVars, formVars, histVars, notAuthForm>>

\* handleBlur of the input of that name.
AuthFormBlur(name) ==
  /\ authForm.component \in AuthForms
  /\ name \in {"email", "password"}
  /\ LET value == authForm.formData[name]
         error == IF name = "email" THEN validateEmail(value)
                  ELSE validatePassword(authForm.component, value)
     IN  authForm' = [authForm EXCEPT !.touched[name] = TRUE, !.errors[name] = error,
                                      !.out = <<>>]
  /\ UNCHANGED <<authVars, formVars, histVars, notAuthForm>>

\* handleSubmit, up to its await of signup / login.
AuthFormSubmit ==
  /\ authForm.component \in AuthForms
  /\ authForm.pending < MaxPending
  /\ LET emailError == validateEmail(authForm.formData.email)
         passwordError == validatePassword(authForm.component, authForm.formData.password)
     IN  authForm' =
           IF emailError # "" \/ passwordError # ""
           THEN [authForm EXCEPT
                   !.errors = [email |-> emailError, password |-> passwordError],
                   !.touched = [email |-> TRUE, password |-> TRUE],
                   !.out = <<>>]
           ELSE [authForm EXCEPT
                   !.isLoading = TRUE, !.pending = @ + 1,
                   !.out = <<CallOf(IF authForm.component = "SignupForm"
                                    THEN "signup" ELSE "login",
                                    authForm.formData)>>]
  /\ UNCHANGED <<authVars, formVars, histVars, notAuthForm>>

\* handleSubmit, after signup / login settled: the alert, the redirect on
\* success, and isLoading false again.
AuthFormSettled(ok) ==
  /\ authForm.component \in AuthForms
  /\ authForm.pending > 0
  /\ ok \in BOOLEAN
  /\ authForm' = [authForm EXCEPT
                    !.isLoading = FALSE, !.pending = @ - 1,
                    !.out = IF ok THEN <<CallOf("signupSuccess / loginSuccess", Undefined),
                                         CallOf("router.push", "/tasks")>>
                            ELSE <<CallOf("signupError / loginError", Undefined)>>]
  /\ UNCHANGED <<authVars, formVars, histVars, notAuthForm>>

\* --------------------------------------------------- the theme provider
\* The calls of toggleDarkMode and setMode that are followed.
MaxThemeCalls == 4

\* What setMode may be called with.
ThemeModes == {"light", "dark", "system"}

\* What the browser may hold when the provider mounts: the stored preference
\* (or none) and whether the document root has the dark class.
BrowserThemes ==
  {[stored |-> st, rootDark |-> d] :
     st \in {Str("light"), Str("dark"), Absent}, d \in BOOLEAN}

\* createTheme(mode).mode
createTheme(mode) == "light"

\* The effect on [mode]: the preference is stored and the dark class removed.
persistEffect(t) == [t EXCEPT !.stored = Str("light"), !.rootDark = FALSE]

\* The provider after its first render and its effects.
ThemeMounted(browser) ==
  persistEffect([mode |-> "light", provided |-> "light",
                 themeMode |-> createTheme("light"),
                 stored |-> browser.stored, rootDark |-> browser.rootDark,
                 console |-> "", calls |-> <<>>])

ThemeInit == theme \in {ThemeMounted(browser) : browser \in BrowserThemes}

\* The render of the provider after setModeState(next): a state that is the
\* same skips the render; the effect on [mode] runs when mode changed.
setModeState(t, next) ==
  IF next = t.mode THEN t
  ELSE persistEffect([t EXCEPT !.mode = next, !.provided = "light",
                               !.themeMode = createTheme("light")])

\* A toggleDarkMode that switches the mode.
toggleDarkModeSwitching(t) ==
  [t EXCEPT !.mode = IF @ = "light" THEN "dark" ELSE "light",
            !.provided = IF @ = "light" THEN "dark" ELSE "light",
            !.stored = IF t.mode = "light" THEN Str("dark") ELSE Str("light"),
            !.rootDark = t.mode = "light"]

\* toggleDarkMode: a line on the console.
toggleDarkMode(t) ==
  [t EXCEPT !.console = "Dark mode is disabled. App uses light theme only."]

\* setMode(newMode)
setMode(t, newMode) == setModeState(t, "light")

ThemeToggleDarkMode ==
  /\ Len(theme.calls) < MaxThemeCalls
  /\ theme' = [toggleDarkMode(theme) EXCEPT !.calls = Append(@, "toggleDarkMode")]
  /\ UNCHANGED <<authVars, formVars, histVars, notTheme>>

ThemeSetMode(newMode) ==
  /\ newMode \in ThemeModes
  /\ Len(theme.calls) < MaxThemeCalls
  /\ theme' = [setMode(theme, newMode) EXCEPT !.calls = Append(@, newMode)]
  /\ UNCHANGED <<authVars, formVars, histVars, notTheme>>

\* ---------------------------------------------- settings and login pages
\* logout of the auth context, as the settings page calls it: the logout of
\* the auth service is started and its promise is not awaited.
contextLogout(ls) ==
  [IdleCall EXCEPT !.op = "logout", !.pc = "fetch",
                   !.header = AuthHeader("logout", ls), !.sent = 1]

\* The user opens the settings page from the tasks page.
SettingsOpen ==
  /\ location = "/tasks"
  /\ location' = "/settings"
  /\ UNCHANGED <<cookieJar, localStorage, calls, formVars, histVars, pageVars>>

\* handleLogout of the settings page, confirmed in the dialog: logout() is
\* called and, without waiting for it, the router goes to /login.
SettingsHandleLogout(c) ==
  /\ location = "/settings"
  /\ Free(c)
  /\ calls' = [calls EXCEPT ![c] = contextLogout(localStorage)]
  /\ location' = "/login"
  /\ UNCHANGED <<cookieJar, localStorage, formVars, histVars, pageVars>>

\* handleSubmit of LoginForm on the login page, with valid fields: login of
\* the auth service is called and awaited.
LoginPageSubmit(c) ==
  /\ location = "/login"
  /\ \A d \in CallIds : calls[d].op # "login"
  /\ AuthCall(c, "login")

\* The fetch of a call started by one of the two pages settles.
PageAuthSettle(c, resp) ==
  /\ resp \in FetchOutcomes(calls[c].op)
  /\ AuthSettle(c, resp)

\* handleSubmit of LoginForm goes on after login: when it resolved, the
\* success alert is awaited and the router goes to /tasks; when it rejected,
\* the error alert is shown and the form stays.
LoginPageAfterLogin(c) ==
  /\ calls[c].op = "login"
  /\ calls[c].pc = "done"
  /\ location' = IF calls[c].outcome = "returned" THEN "/tasks" ELSE location
  /\ calls' = [calls EXCEPT ![c] = IdleCall]
  /\ UNCHANGED <<cookieJar, localStorage, formVars, histVars, pageVars>>

\* ---------------------------------------------------- history fetch
BackendPaginations ==
  {Obj([current_page |-> Num(cp), page_size |-> Num(ps), total_count |-> Num(tc),
        total_pages |-> Num(tp), has_next |-> Bool(hn), has_prev |-> Bool(hp)]) :
     cp \in 1..MaxPage, ps \in {10, 20}, tc \in {0, 25}, tp \in {0, 3},
     hn \in BOOLEAN, hp \in BOOLEAN}

ItemLists == {Arr(<<>>), Arr(<<Str("h1"), Str("h2")>>)}

\* The body the backend answers GET /history with.
HistoryBody(items, pagination) ==
  Envelope(Obj([items |-> items, pagination |-> pagination]))

\* getHistory's HTTP call is answered 2xx and the method returns.
HistoryReturn ==
  /\ history.pc = "fetching"
  /\ history' = [history EXCEPT !.pc = "returned",
                                !.result = getHistory(history.body).value]
  /\ UNCHANGED <<authVars, formVars, pageVars>>

\* The page asks for another page of the history.
HistoryFetch(items, pagination) ==
  /\ history.pc = "returned"
  /\ history' = [pc |-> "fetching", body |-> HistoryBody(items, pagination),
                 result |-> Undefined]
  /\ UNCHANGED <<authVars, formVars, pageVars>>

\* --------------------------------------------------- the specifications
ServicesInit ==
  /\ cookieJar = [n \in CookieNames |-> Absent]
  /\ localStorage = [k \in StorageKeys |-> Absent]
  /\ location = "/login"
  /\ calls = [c \in CallIds |-> IdleCall]

FormsInit ==
  /\ text = [title |-> EmptyText, description |-> EmptyText]
  /\ formTask = Undefined
  /\ form = ClosedForm

HistoryInit == history = [pc |-> "returned", body |-> Undefined, result |-> Undefined]

\* The auth service and the ApiClient on one page.
Init ==
  /\ ServicesInit /\ FormsInit /\ HistoryInit
  /\ TasksPageInit /\ HistoryPageInit /\ NotifPageInit /\ AuthFormInit /\ ThemeInit

Next ==
  \/ \E c \in AuthIds, op \in AuthOps : AuthCall(c, op)
  \/ \E c \in AuthIds : \E resp \in FetchOutcomes(calls[c].op) : AuthSettle(c, resp)
  \/ \E c \in ApiIds, m \in ApiMethods : ApiCall(c, m)
  \/ \E c \in ApiIds : \E r \in ApiOutcomes(calls[c].op) : ApiSucceed(c, r)
  \/ \E c \in ApiIds : \E r \in ApiOutcomes(calls[c].op) : ApiFail(c, r)
  \/ \E c \in ApiIds : \E r \in ApiOutcomes(calls[c].op) : ApiUnauthorized(c, r)
  \/ \E c \in ApiIds : ApiRedirect(c)
  \/ \E p \in Pages : Navigate(p)

Spec == Init /\ [][Next]_vars

\* The task forms.
NextForms ==
  \/ \E task \in EditTasks \cup {Undefined} : ModalOpen(task)
  \/ \E v \in Titles : ModalSetTitle(v)
  \/ \E v \in Descriptions : ModalSetDescription(v)
  \/ ModalHandleSubmit
  \/ ModalSubmitResolved
  \/ \E err \in SubmitErrors : ModalSubmitRejected(err)
  \/ \E task \in EditTasks \cup {Undefined} : FormOpen(task)
  \/ \E v \in Titles : FormSetTitle(v)
  \/ \E v \in Descriptions : FormSetDescription(v)
  \/ FormHandleSubmit

SpecForms == Init /\ [][NextForms]_vars

\* The tag selection of the task forms.
NextTags ==
  \/ \E task \in EditTasks \cup {Undefined} : ModalOpen(task)
  \/ \E tag \in STANDARD_TAGS : ModalToggleTag(tag)
  \/ \E task \in EditTasks \cup {Undefined} : FormOpen(task)
  \/ \E tag \in STANDARD_TAGS : FormAddTag(tag)
  \/ \E tag \in STANDARD_TAGS \cup {"work"} : FormRemoveTag(tag)
  \/ FormHandleSubmit

SpecTags == Init /\ [][NextTags]_vars

\* The list of the tasks page.
NextTasksPage ==
  \/ \E list \in TaskLists : TasksLoaded(list)
  \/ \E status \in SUBSET TaskStatuses : OnStatusChange(status)
  \/ \E priority \in SUBSET Priorities : OnPriorityChange(priority)
  \/ \E dueDate \in DueDateBuckets : OnDueDateChange(dueDate)
  \/ OnClearAll
  \/ \E q \in SearchQueries : SetSearchQuery(q)
  \/ \E field \in SortFields : SetSortField(field)
  \/ ToggleDirection

SpecTasksPage == Init /\ [][NextTasksPage]_vars

\* The create and edit modals of the tasks page.
NextTaskModals ==
  \/ PageOpenCreate
  \/ \E task \in EditTasks : PageEditTask(task)
  \/ \E v \in Titles : PageSetTitle(v)
  \/ \E priority \in Priorities : PageSetPriority(priority)
  \/ PageModalSubmit
  \/ PageStoreResolved
  \/ \E err \in SubmitErrors : PageStoreRejected(err)
  \/ PageDismiss

SpecTaskModals == Init /\ [][NextTaskModals]_vars

\* The history page.
NextHistoryPage ==
  \/ \E page \in 1..MaxPage : HistPageChange(page)
  \/ HistRefresh
  \/ \E f \in historyPage.fetches : HistFetchDone(f)
  \/ \E f \in historyPage.fetches : HistFetchFailed(f)
  \/ \E historyId \in {"h1", "h2"} : HistDelete(historyId)
  \/ HistDeleteSucceeded
  \/ HistToastClosed
  \/ HistDeleteFailed

SpecHistoryPage == Init /\ [][NextHistoryPage]_vars

\* The notifications page.
NextNotifPage ==
  \/ \E filter \in NotificationFilters : NotifSetFilter(filter)
  \/ \E f \in notifPage.fetches, response \in NotificationAnswers :
       NotifFetchFulfilled(f, response)
  \/ \E f \in notifPage.fetches : NotifFetchRejected(f)
  \/ NotifMark
  \/ NotifMarkResolved
  \/ NotifMarkRejected

SpecNotifPage == Init /\ [][NextNotifPage]_vars

\* The signup and login forms.
NextAuthForm ==
  \/ \E component \in AuthForms : AuthFormMount(component)
  \/ \E value \in Emails : AuthFormChange("email", value)
  \/ \E value \in Passwords : AuthFormChange("password", value)
  \/ \E name \in {"email", "password"} : AuthFormBlur(name)
  \/ AuthFormSubmit
  \/ \E ok \in BOOLEAN : AuthFormSettled(ok)

SpecAuthForm == Init /\ [][NextAuthForm]_vars

\* The theme provider.
NextTheme ==
  \/ ThemeToggleDarkMode
  \/ \E newMode \in ThemeModes : ThemeSetMode(newMode)

SpecTheme == Init /\ [][NextTheme]_vars

\* TaskForm with its text fields and its tags together. The tags typed are
\* two of the standard ones.
FormTagInputs == {"Work", "Urgent"}

NextTaskForm ==
  \/ \E task \in EditTasks \cup {Undefined} : FormOpen(task)
  \/ \E v \in Titles : FormSetTitle(v)
  \/ \E v \in Descriptions : FormSetDescription(v)
  \/ \E tag \in FormTagInputs : FormAddTag(tag)
  \/ \E tag \in FormTagInputs : FormRemoveTag(tag)
  \/ FormHandleSubmit

SpecTaskForm == Init /\ [][NextTaskForm]_vars

\* The settings page and the login page on the auth service.
NextSettings ==
  \/ SettingsOpen
  \/ \E c \in CallIds : SettingsHandleLogout(c)
  \/ \E c \in CallIds : LoginPageSubmit(c)
  \/ \E c \in CallIds : \E resp \in FetchOutcomes(calls[c].op) : PageAuthSettle(c, resp)
  \/ \E c \in CallIds : LoginPageAfterLogin(c)

SpecSettings == Init /\ [][NextSettings]_vars

\* getHistory applied to every backend pagination record.
NextHistory ==
  \/ \E items \in ItemLists, pagination \in BackendPaginations : HistoryFetch(items, pagination)
  \/ HistoryReturn

SpecHistory == Init /\ [][NextHistory]_vars

\* ------------------------------------------------------------- claims
\* A call of slot c completes in this step.
Completes(c) == calls[c].pc \in {"fetch", "http", "alert"} /\ calls'[c].pc = "done"

CredentialsCleared(jar, ls) ==
  /\ jar["auth_token"] = Absent
  /\ ls["auth_token"] = Absent
  /\ ls["user"] = Absent

\* C1: whatever the remote POST /auth/logout does (an OK answer, an answer
\* that is not OK, a fetch or a JSON parse that throws), when a call of
\* logout completes the auth_token cookie is deleted and the local storage
\* keys auth_token and user are removed.
C1_LogoutAlwaysClears ==
  [][\A c \in CallIds :
       (calls[c].op = "logout" /\ Completes(c))
         => CredentialsCleared(cookieJar', localStorage')]_vars

\* A logout that was called with a token stored, whose remote call failed,
\* has completed by throwing, and the credentials are gone.
C1_Witness ==
  \E c \in CallIds :
    /\ calls[c].op = "logout" /\ calls[c].pc = "done"
    /\ calls[c].header # Undefined
    /\ calls[c].resp.kind = "network_error"
    /\ calls[c].outcome = "threw"
    /\ CredentialsCleared(cookieJar, localStorage)

\* The call of slot c is answered 401 in this step.
Answered401(c) ==
  /\ calls[c].pc = "http"
  /\ calls'[c].pc # "http"
  /\ calls'[c].resp.kind = "error"
  /\ calls'[c].resp.status = 401

\* C2: for every ApiClient method, when the HTTP answer has status 401 the
\* response interceptor removes the local storage keys auth_token and user,
\* and then (once the alert it awaits has settled) sets the window location
\* to /login.
C2_UnauthorizedClearsThenRedirects ==
  [][\A c \in CallIds :
       /\ Answered401(c) =>
            /\ localStorage'["auth_token"] = Absent
            /\ localStorage'["user"] = Absent
            /\ calls'[c].pc = "alert"
       /\ (calls[c].pc = "alert" /\ calls'[c].pc # "alert") =>
            /\ location' = "/login"
            /\ calls'[c].pc = "done"]_vars

\* A method call answered 401 has finished on the login page with local
\* storage cleared, while the cookie of the earlier login is still there.
C2_Witness ==
  \E c \in CallIds :
    /\ calls[c].op \in ApiMethods /\ calls[c].pc = "done"
    /\ calls[c].resp.kind = "error" /\ calls[c].resp.status = 401
    /\ location = "/login"
    /\ localStorage["auth_token"] = Absent /\ localStorage["user"] = Absent
    /\ cookieJar["auth_token"] # Absent

\* The signup or login of slot c completes in this step on an OK answer
\* whose body holds a token.
StoresSession(c) ==
  /\ calls[c].op \in {"signup", "login"}
  /\ Completes(c)
  /\ calls'[c].resp.kind = "response"
  /\ calls'[c].resp.ok
  /\ calls'[c].resp.body # NotJson
  /\ Get(calls'[c].resp.body, "token") \in Tokens

\* C3: after signup or login receives an OK answer that holds a token t, the
\* cookie auth_token is t, local storage auth_token is t, and local storage
\* user is the JSON text of the answer's user.
C3_SessionStored ==
  [][\A c \in CallIds :
       StoresSession(c) =>
         /\ cookieJar'["auth_token"] = Get(calls'[c].resp.body, "token")
         /\ localStorage'["auth_token"] = Get(calls'[c].resp.body, "token")
         /\ localStorage'["user"] = [t |-> "string", json |-> Get(calls'[c].resp.body, "user")]]_vars

\* A login has completed on an OK answer with token t2 while another session
\* (token t1) was stored before: all three copies now belong to the answer.
C3_Witness ==
  \E c \in CallIds :
    /\ calls[c].op = "login" /\ calls[c].pc = "done"
    /\ calls[c].resp.kind = "response" /\ calls[c].resp.ok
    /\ calls[c].resp.body # NotJson
    /\ Get(calls[c].resp.body, "token") = Str("t2")
    /\ cookieJar["auth_token"] = Str("t2")
    /\ localStorage["auth_token"] = Str("t2")
    /\ localStorage["user"] = [t |-> "string", json |-> Get(calls[c].resp.body, "user")]

\* C4 (as claimed): in every reachable state the auth_token cookie and local
\* storage auth_token mirror each other: both absent, or both the same token.
C4_CookieMirrorsStorage ==
  cookieJar["auth_token"] = localStorage["auth_token"]

\* A request of slot c is sent in this step.
Sends(c) == calls[c].pc # "http" /\ calls'[c].pc = "http"

\* C5: an ApiClient request carries Authorization: Bearer t exactly when
\* local storage auth_token holds t at the moment it is sent; a completed
\* logout and a handled 401 leave no token in local storage, and only a
\* completing signup or login puts one there, so that no request carries the
\* header from a logout or a 401 until a later signup or login stores a token.
C5_BearerFollowsStorage ==
  [][\A c \in CallIds :
       /\ Sends(c) =>
            calls'[c].header =
              IF localStorage["auth_token"] = Absent THEN Undefined
              ELSE Str("Bearer " \o localStorage["auth_token"].v)
       /\ ((calls[c].op = "logout" /\ Completes(c)) \/ Answered401(c)) =>
            localStorage'["auth_token"] = Absent
       /\ (localStorage["auth_token"] = Absent /\ localStorage'["auth_token"] # Absent) =>
            \E d \in CallIds : calls[d].op \in {"signup", "login"} /\ Completes(d)]_vars

\* After a 401 was handled a request is in flight without the header, although
\* the cookie still holds the token.
C5_Witness ==
  \E c \in CallIds :
    /\ calls[c].op \in ApiMethods /\ calls[c].pc = "http"
    /\ calls[c].header = Undefined
    /\ cookieJar["auth_token"] # Absent
    /\ localStorage["auth_token"] = Absent

\* The fixed message each auth function falls back to.
FallbackMessage(op) ==
  CASE op = "signup" -> Str("Signup failed. Please try again.")
    [] op = "login" -> Str("Login failed. Please try again.")
    [] op = "logout" -> Str("Logout failed. Please try again.")
    [] OTHER -> Str("Session validation failed.")

\* The detail field of an answer's body, Undefined when there is none.
DetailOf(resp) ==
  IF resp.body = NotJson THEN Undefined ELSE Get(resp.body, "detail")

\* C6 (as claimed): when signup, login or getCurrentUser receives an answer
\* that is not OK, it throws an Error whose message is the answer's detail
\* field when present and the function's fixed fallback message otherwise,
\* and it writes nothing to the cookie or to local storage.
C6_ErrorCarriesDetail ==
  [][\A c \in CallIds :
       (/\ calls[c].op \in {"signup", "login", "getCurrentUser"}
        /\ Completes(c)
        /\ calls'[c].resp.kind = "response"
        /\ ~calls'[c].resp.ok)
       => /\ calls'[c].outcome = "threw"
          /\ calls'[c].value.name = "Error"
          /\ calls'[c].value.message =
               IF DetailOf(calls'[c].resp) # Undefined
               THEN DetailOf(calls'[c].resp)
               ELSE FallbackMessage(calls[c].op)
          /\ cookieJar' = cookieJar
          /\ localStorage' = localStorage]_vars

\* The HTTP call of slot c failed: an error status, or no answer.
HttpFailed(c) ==
  /\ calls[c].op \in ApiMethods
  /\ calls[c].pc = "done"
  /\ calls[c].resp.kind \in {"error", "no_response"}

\* C7 (as claimed): every ApiClient method, the health check included, whose
\* HTTP call fails logs the failure and throws it again; none turns a failure
\* into a normal return value.
C7_EveryMethodRethrows ==
  \A c \in CallIds :
    HttpFailed(c) => ("method" \in calls[c].logged /\ calls[c].outcome = "threw")

\* C7 (amended): every ApiClient method whose HTTP call fails logs the
\* failure; every method but getHealth throws the error it caught again, and
\* getHealth returns the status {status: "down", service: "todo-app-backend"}.
C7_RethrowsExceptHealth ==
  \A c \in CallIds :
    HttpFailed(c) =>
      /\ "method" \in calls[c].logged
      /\ IF calls[c].op = "getHealth"
         THEN /\ calls[c].outcome = "returned"
              /\ calls[c].value = Obj([status |-> Str("down"), service |-> Str("todo-app-backend")])
         ELSE /\ calls[c].outcome = "threw"
              /\ calls[c].value.name = "AxiosError"
              /\ calls[c].value.status =
                   IF calls[c].resp.kind = "error" THEN Num(calls[c].resp.status) ELSE Undefined

\* getTasks got no answer at all, logged it and threw it to its caller.
C7_Witness ==
  \E c \in CallIds :
    /\ calls[c].op = "getTasks" /\ calls[c].pc = "done"
    /\ calls[c].resp.kind = "no_response"
    /\ calls[c].logged = {"interceptor", "method"}
    /\ calls[c].outcome = "threw"

\* C8 (as claimed): every invocation of an ApiClient method issues exactly
\* one HTTP request and, when the request succeeds, returns the data field of
\* the response envelope.
C8_OneRequestReturnsData ==
  \A c \in CallIds :
    (calls[c].op \in ApiMethods /\ calls[c].pc = "done") =>
      /\ calls[c].sent = 1
      /\ calls[c].resp.kind = "success" =>
           /\ calls[c].outcome = "returned"
           /\ calls[c].value = Get(calls[c].resp.body, "data")

\* The methods whose try block is `return response.data.data`.
DataMethods ==
  {"getHealth", "getTask", "createTask", "updateTask", "completeTask",
   "incompleteTask", "getWeeklyStats", "markAllNotificationsAsRead"}

\* C8 (amended): every invocation of an ApiClient method issues exactly one
\* HTTP request, never a second one after a failure. When the request
\* succeeds: getHealth, getTask, createTask, updateTask, completeTask,
\* incompleteTask, getWeeklyStats and markAllNotificationsAsRead return the
\* data field of the envelope; getTasks returns data, or [] when data is
\* missing; markNotificationAsRead returns data, or the whole body when data
\* is missing; getNotifications returns the whole body; getUnreadCount returns
\* data.count and getHistory the re-shaped page, and both throw when data is
\* missing; deleteTask and deleteHistoryEntry return nothing.
C8_OneRequestPerMethodResult ==
  \A c \in CallIds :
    (calls[c].op \in ApiMethods /\ calls[c].pc # "idle") =>
      /\ calls[c].sent = 1
      /\ (calls[c].pc = "done" /\ calls[c].resp.kind = "success") =>
           LET body == calls[c].resp.body
               data == Get(body, "data")
               op == calls[c].op
               returns(v) == calls[c].outcome = "returned" /\ calls[c].value = v
               throws == calls[c].outcome = "threw" /\ calls[c].value.name = "TypeError"
           IN  /\ op \in DataMethods => returns(data)
               /\ op = "getTasks" => returns(IF data \in {Null, Undefined} THEN Arr(<<>>) ELSE data)
               /\ op = "markNotificationAsRead" =>
                    returns(IF data \in {Null, Undefined} THEN body ELSE data)
               /\ op = "getNotifications" => returns(body)
               /\ op = "getUnreadCount" =>
                    IF data \in {Null, Undefined} THEN throws ELSE returns(Get(data, "count"))
               /\ op = "getHistory" =>
                    IF data \in {Null, Undefined} THEN throws
                    ELSE /\ calls[c].outcome = "returned"
                         /\ Get(calls[c].value, "data") = Get(data, "items")
               /\ op \in {"deleteTask", "deleteHistoryEntry"} => returns(Undefined)

\* createTask sent its one request, was answered with an envelope that holds
\* a task, and returned that task.
C8_Witness ==
  \E c \in CallIds :
    /\ calls[c].op = "createTask" /\ calls[c].pc = "done"
    /\ calls[c].sent = 1
    /\ calls[c].resp.kind = "success"
    /\ Get(calls[c].resp.body, "data") = Obj([id |-> Str("task1")])
    /\ calls[c].outcome = "returned"
    /\ calls[c].value = Obj([id |-> Str("task1")])

\* C9: for every backend pagination record, getHistory returns a pagination
\* object with page = current_page, limit = page_size, and total_count,
\* total_pages, has_next and has_prev copied unchanged, and returns the
\* backend's items as data; the record {current_page: 2, page_size: 10,
\* total_count: 25, total_pages: 3, has_next: true, has_prev: true} becomes
\* {page: 2, limit: 10, total_count: 25, total_pages: 3, has_next: true,
\* has_prev: true}.
C9_PaginationMapped ==
  (history.pc = "returned" /\ history.body # Undefined) =>
    LET backend == Get(Get(history.body, "data"), "pagination")
        page == Get(history.result, "pagination")
    IN  /\ history.result.t = "object"
        /\ DOMAIN page.f = {"page", "limit", "total_count", "total_pages", "has_next", "has_prev"}
        /\ Get(page, "page") = Get(backend, "current_page")
        /\ Get(page, "limit") = Get(backend, "page_size")
        /\ Get(page, "total_count") = Get(backend, "total_count")
        /\ Get(page, "total_pages") = Get(backend, "total_pages")
        /\ Get(page, "has_next") = Get(backend, "has_next")
        /\ Get(page, "has_prev") = Get(backend, "has_prev")
        /\ Get(history.result, "data") = Get(Get(history.body, "data"), "items")
        /\ backend = Obj([current_page |-> Num(2), page_size |-> Num(10),
                          total_count |-> Num(25), total_pages |-> Num(3),
                          has_next |-> Bool(TRUE), has_prev |-> Bool(TRUE)])
             => page = Obj([page |-> Num(2), limit |-> Num(10), total_count |-> Num(25),
                            total_pages |-> Num(3), has_next |-> Bool(TRUE),
                            has_prev |-> Bool(TRUE)])

\* getHistory has returned for the record of the spec's example, with two
\* items, and its result carries the example's client-side pagination.
C9_Witness ==
  /\ history.pc = "returned"
  /\ history.body # Undefined
  /\ Get(Get(history.body, "data"), "pagination") =
       Obj([current_page |-> Num(2), page_size |-> Num(10), total_count |-> Num(25),
            total_pages |-> Num(3), has_next |-> Bool(TRUE), has_prev |-> Bool(TRUE)])
  /\ Get(history.result, "pagination") =
       Obj([page |-> Num(2), limit |-> Num(10), total_count |-> Num(25),
            total_pages |-> Num(3), has_next |-> Bool(TRUE), has_prev |-> Bool(TRUE)])
  /\ Get(history.result, "data") = Arr(<<Str("h1"), Str("h2")>>)

\* The latest handler run recorded an error and did not call onSubmit.
ModalRejected == form'.error # "" /\ form'.out = <<>> /\ form'.pending = form.pending
FormRejected ==
  /\ form'.errors.title # "" \/ form'.errors.description # ""
  /\ form'.out = <<>>

NoDuplicates(tags) ==
  \A i, j \in 1..Len(tags) : i # j => tags[i] # tags[j]

\* C11: in TaskModal and in TaskForm, opened on a task of at most five
\* distinct tags, after any sequence of the tag actions the rendered form
\* enables (toggle, add, remove) the selected tag list has at most five
\* entries and holds no tag twice.
C11_TagsAtMostFiveDistinct ==
  form.component \in {"TaskModal", "TaskForm"} =>
    Len(form.tags) <= 5 /\ NoDuplicates(form.tags)

\* Five tags were selected one by one in a new task's TaskModal, whose
\* buttons of the other tags are now disabled.
C11_Witness ==
  /\ form.component = "TaskModal"
  /\ formTask = Undefined
  /\ Len(form.tags) = 5
  /\ \E tag \in STANDARD_TAGS : ~TagButtonEnabled(form.tags, tag)

\* The place of the task with this id in a list of tasks.
PlaceOf(list, id) == CHOOSE i \in 1..Len(list) : list[i].id = id
Ids(list) == {list[i].id : i \in 1..Len(list)}

\* C12: the tasks page hands the TaskList search(sort(filter(tasks))): a task
\* of the store is in the list iff it passes the active filters and the query
\* is blank after trimming or, lower-cased, is part of the lower-cased title,
\* description or a tag; the listed tasks stand in the order of the sorted
\* list. With A ("Buy milk", COMPLETED) and B ("Write report", NOT_STARTED),
\* the status filter NOT_STARTED and the query "report" list B alone.
C12_ShownIsSearchSortFilter ==
  LET p == tasksPage
      sorted == sortedTasks(filteredTasks(p.tasks, p.filterState), p.sortState)
      query == toLowerCase(p.searchQuery)
      Found(task) ==
        \/ \A i \in 1..Len(p.searchQuery) : p.searchQuery[i] = " "
        \/ includes(toLowerCase(task.title), query)
        \/ /\ task.description # Undefined
           /\ includes(toLowerCase(task.description.chars), query)
        \/ /\ task.tags # Undefined
           /\ \E k \in 1..Len(task.tags.items) :
                includes(toLowerCase(task.tags.items[k]), query)
  IN  /\ \A i \in 1..Len(p.tasks) :
           (p.tasks[i].id \in Ids(p.shown))
             <=> (PassesFilters(p.tasks[i], p.filterState) /\ Found(p.tasks[i]))
      /\ \A i \in 1..Len(p.shown) : p.shown[i] \in {p.tasks[k] : k \in 1..Len(p.tasks)}
      /\ \A i, j \in 1..Len(p.shown) :
           i < j => PlaceOf(sorted, p.shown[i].id) < PlaceOf(sorted, p.shown[j].id)
      /\ (/\ p.tasks = <<TaskA, TaskB>>
          /\ p.filterState = [NoFilters EXCEPT !.status = {"NOT_STARTED"}]
          /\ p.searchQuery = <<"r", "e", "p", "o", "r", "t">>)
           => p.shown = <<TaskB>>

\* The store holds A and B, the status filter is NOT_STARTED, the query is
\* "report", and B alone is listed.
C12_Witness ==
  /\ tasksPage.tasks = <<TaskA, TaskB>>
  /\ tasksPage.filterState.status = {"NOT_STARTED"}
  /\ tasksPage.searchQuery = <<"r", "e", "p", "o", "r", "t">>
  /\ tasksPage.shown = <<TaskB>>

\* C13: selecting a due-date bucket in the filter of the tasks page changes
\* the filter state that is applied to the task list: after a bucket other
\* than the current one is selected, the filter state holds that bucket.
C13_DueDateBucketApplied ==
  [][\A dueDate \in DueDateBuckets :
       OnDueDateChange(dueDate) => tasksPage'.filterState.dueDate = dueDate]_vars

\* C14 as stated: create and update are not optimistic: the modal is closed
\* only after the promise of createTask / updateTask has resolved, so it is
\* open as long as that promise is pending, and when the promise rejects the
\* modal stays open showing the error.
C14_ModalOpenUntilResolved ==
  /\ tasksPage.store.pc = "pending" => ModalIsOpen(tasksPage)
  /\ tasksPage.store.pc = "rejected" =>
       ModalIsOpen(tasksPage) \/ form.error = ""

\* C14, amended: the submit never closes the modal by itself: the step that
\* submits leaves showCreateModal and editingTask as they are; the step in
\* which createTask / updateTask resolves closes the modal that submitted;
\* the step in which it rejects leaves both as they are, records the error
\* and ends isSubmitting. The Dialog can still be dismissed by the user while
\* the promise is pending.
C14_SubmitClosesOnlyOnResolve ==
  [][/\ PageModalSubmit =>
          /\ tasksPage'.showCreateModal = tasksPage.showCreateModal
          /\ tasksPage'.editingTask = tasksPage.editingTask
     /\ PageStoreResolved =>
          /\ tasksPage.store.op = "createTask" => ~tasksPage'.showCreateModal
          /\ tasksPage.store.op = "updateTask" => tasksPage'.editingTask = Null
     /\ (\E err \in SubmitErrors : PageStoreRejected(err)) =>
          /\ tasksPage'.showCreateModal = tasksPage.showCreateModal
          /\ tasksPage'.editingTask = tasksPage.editingTask
          /\ form'.error # ""
          /\ ~form'.isSubmitting]_vars

\* createTask rejected while the modal that creates was open: the modal is
\* still open and shows the error.
C14_Witness ==
  /\ tasksPage.store.pc = "rejected"
  /\ tasksPage.store.op = "createTask"
  /\ tasksPage.showCreateModal
  /\ form.error # ""
  /\ ~form.isSubmitting

\* C15: on the history page, deleting an entry fetches the history again for
\* the current page number after, and only after, the DELETE call succeeded:
\* the fetch handleDeleteEntry issues is for the page number the page holds
\* when it is issued; when the delete fails no fetch is issued and the shown
\* entries and pagination are unchanged.
C15_RefetchCurrentPageAfterDelete ==
  [][/\ HistToastClosed =>
          /\ historyPage'.issued # Undefined
          /\ historyPage'.issued.page = historyPage.pagination.page
     /\ HistDeleteSucceeded => historyPage'.fetches = historyPage.fetches
     /\ HistDeleteFailed =>
          /\ historyPage'.fetches = historyPage.fetches
          /\ historyPage'.entries = historyPage.entries
          /\ historyPage'.pagination = historyPage.pagination]_vars

\* C16: on the notifications page, when calls of fetchNotifications overlap,
\* the list and the unread count held once all of them have completed are
\* those of the answer that arrived last, whatever the order in which the
\* calls were issued; a call that fails leaves both as they are.
C16_LastCompletedWins ==
  (notifPage.fetches = {} /\ notifPage.lastFulfilled # Undefined) =>
    /\ notifPage.notifications = notifPage.lastFulfilled.response.notifications
    /\ notifPage.unreadCount = notifPage.lastFulfilled.response.unread_count

\* Two calls overlapped and the one issued first was answered last, with one
\* notification: the page holds that answer.
C16_Witness ==
  /\ notifPage.fetches = {}
  /\ notifPage.lastFulfilled # Undefined
  /\ notifPage.lastFulfilled.overtaken
  /\ Len(notifPage.notifications) = 1
  /\ notifPage.unreadCount = 1

\* An email of the shape local@domain.tld: no whitespace, one "@" that is
\* not the first character, and after it a "." that neither follows the "@"
\* at once nor ends the email.
EmailShape(email) ==
  /\ \A i \in 1..Len(email) : email[i] \notin {" ", "\t"}
  /\ Cardinality({i \in 1..Len(email) : email[i] = "@"}) = 1
  /\ LET at == CHOOSE i \in 1..Len(email) : email[i] = "@"
     IN  /\ at > 1
         /\ \E k \in (at + 2)..(Len(email) - 1) : email[k] = "."

\* C17: SignupForm calls signup only when the email has the shape
\* local@domain.tld and the password has at least 8 characters; LoginForm
\* calls login only when the email has that shape and the password is not
\* empty. Otherwise the submit records field errors and issues no request.
C17_SubmitOnlyWhenValid ==
  [][AuthFormSubmit =>
       LET data == authForm.formData
           valid == /\ EmailShape(data.email)
                    /\ IF authForm.component = "SignupForm"
                       THEN Len(data.password) >= 8
                       ELSE Len(data.password) >= 1
       IN  IF valid
           THEN authForm'.out =
                  <<CallOf(IF authForm.component = "SignupForm" THEN "signup" ELSE "login",
                           data)>>
           ELSE /\ authForm'.out = <<>>
                /\ authForm'.errors.email # "" \/ authForm'.errors.password # ""
                /\ authForm'.pending = authForm.pending]_vars

\* SignupForm was submitted with an email of the right shape and a password
\* of seven characters: the error is recorded and signup was not called.
C17_Witness ==
  /\ authForm.component = "SignupForm"
  /\ EmailShape(authForm.formData.email)
  /\ Len(authForm.formData.password) = 7
  /\ authForm.errors.password = "Password must be at least 8 characters"
  /\ authForm.touched.email
  /\ authForm.out = <<>>
  /\ authForm.pending = 0

\* C18: the theme mode is "light" in every reachable state: after any
\* sequence of toggleDarkMode and setMode calls, with any argument, the
\* provided mode and theme.mode are "light", the stored preference is
\* "light" and the document root has no dark class.
C18_AlwaysLight ==
  /\ theme.provided = "light"
  /\ theme.themeMode = "light"
  /\ theme.stored = Str("light")
  /\ ~theme.rootDark

\* toggleDarkMode and setMode("dark") were both called.
C18_Witness ==
  /\ \E i \in 1..Len(theme.calls) : theme.calls[i] = "toggleDarkMode"
  /\ \E i \in 1..Len(theme.calls) : theme.calls[i] = "dark"
  /\ theme.provided = "light"
  /\ theme.stored = Str("light")

\* The HTTP call of slot c ends in this step with anything but status 401.
EndsNot401(c) ==
  /\ calls[c].pc = "http"
  /\ calls'[c].pc # "http"
  /\ ~(calls'[c].resp.kind = "error" /\ calls'[c].resp.status = 401)

\* C19: HTTP 401 is the only answer that forces a logout: when a call of the
\* ApiClient ends with any other status or with no answer (network error,
\* timeout), local storage auth_token and user and the window location are
\* unchanged. With 401 as with the others the error is rejected to the
\* calling method, whose catch block runs.
C19_OnlyUnauthorizedForcesLogout ==
  [][\A c \in ApiIds :
       /\ EndsNot401(c) =>
            /\ localStorage' = localStorage
            /\ location' = location
            /\ calls'[c].pc = "done"
            /\ calls'[c].resp.kind # "success" => "method" \in calls'[c].logged
       /\ (calls[c].pc = "alert" /\ calls'[c].pc # "alert") =>
            /\ calls'[c].pc = "done"
            /\ "method" \in calls'[c].logged]_vars

\* A call that got no answer has finished for a logged-in user on the tasks
\* page: the token and the user are still stored, the page is the same, and
\* the method has thrown the error.
C19_Witness ==
  \E c \in ApiIds :
    /\ calls[c].pc = "done"
    /\ calls[c].resp.kind = "no_response"
    /\ calls[c].outcome = "threw"
    /\ localStorage["auth_token"] # Absent
    /\ localStorage["user"] # Absent
    /\ location = "/tasks"

\* The calls of a callback among those a handler run has made.
CallsOf(out, cb) == {i \in 1..Len(out) : out[i].cb = cb}

\* C20: a failed save in TaskModal is terminal but can be tried again: a
\* submit calls onSubmit at most once; when onSubmit has settled, resolved
\* or rejected, isSubmitting is false again; on a rejection the error message
\* is recorded, neither onClose nor onSubmit is called, and the title, the
\* description, the priority and the tags entered are unchanged.
C20_FailedSaveRetryable ==
  [][/\ ModalHandleSubmit => Cardinality(CallsOf(form'.out, "onSubmit")) <= 1
     /\ ModalSubmitResolved => ~form'.isSubmitting
     /\ \A err \in SubmitErrors :
          ModalSubmitRejected(err) =>
            /\ ~form'.isSubmitting
            /\ form'.error # ""
            /\ CallsOf(form'.out, "onClose") = {}
            /\ CallsOf(form'.out, "onSubmit") = {}
            /\ text' = text
            /\ form'.priority = form.priority
            /\ form'.tags = form.tags]_vars

\* A save of the task with five tags was rejected: the modal shows the
\* error, is not submitting, and still holds the title and the tags.
C20_Witness ==
  /\ form.component = "TaskModal"
  /\ form.error = "Network Error"
  /\ ~form.isSubmitting
  /\ form.pending = 0
  /\ Len(form.tags) = 5
  /\ ModalValidate(text.title, text.description) = ""

\* The fetch of the auth call in slot c settles in this step.
Settles(c, op) ==
  /\ calls[c].op = op
  /\ calls[c].pc = "fetch"
  /\ calls'[c].pc = "done"

\* C21: isAuthenticated never throws: it returns true exactly when
\* getCurrentUser resolves for the answer of GET /auth/me, which needs an OK
\* response, and returns false when the response is not OK or the request
\* itself fails; the cookie jar and local storage are left as they were.
C21_IsAuthenticatedTotal ==
  [][\A c \in AuthIds :
       Settles(c, "isAuthenticated") =>
         LET resp == calls'[c].resp
             user == getCurrentUser(resp, cookieJar, localStorage)
         IN  /\ calls'[c].outcome = "returned"
             /\ calls'[c].value \in {Bool(TRUE), Bool(FALSE)}
             /\ calls'[c].value = Bool(TRUE) <=> user.outcome = "returned"
             /\ calls'[c].value = Bool(TRUE) => (resp.kind = "response" /\ resp.ok)
             /\ (resp.kind = "network_error" \/ ~resp.ok) => calls'[c].value = Bool(FALSE)
             /\ cookieJar' = cookieJar
             /\ localStorage' = localStorage]_vars

\* isAuthenticated has answered false for a logged-in user whose request
\* failed: the token and the user are still stored.
C21_Witness ==
  \E c \in AuthIds :
    /\ calls[c].op = "isAuthenticated"
    /\ calls[c].pc = "done"
    /\ calls[c].resp.kind = "network_error"
    /\ calls[c].outcome = "returned"
    /\ calls[c].value = Bool(FALSE)
    /\ localStorage["auth_token"] # Absent
    /\ cookieJar["auth_token"] # Absent

\* C22: a valid submit of TaskForm in create mode calls onSubmit once, with
\* status NOT_STARTED, and then resets the title, the description, the tags
\* and the errors to empty; in edit mode it calls onSubmit with the id, the
\* status and the createdAt of the edited task and leaves the title, the
\* description and the tags as entered.
C22_SubmitResetsOnlyInCreateMode ==
  [][(FormHandleSubmit /\ validateForm(text.title, text.description) = NoErrors) =>
       /\ Len(form'.out) = 1
       /\ form'.out[1].cb = "onSubmit"
       /\ IF formTask = Undefined
          THEN /\ form'.out[1].arg.status = "NOT_STARTED"
               /\ text' = [title |-> EmptyText, description |-> EmptyText]
               /\ form'.tags = <<>>
               /\ form'.errors = NoErrors
          ELSE /\ form'.out[1].arg.id = formTask.id
               /\ form'.out[1].arg.status = formTask.status
               /\ form'.out[1].arg.createdAt = formTask.createdAt
               /\ text' = text
               /\ form'.tags = form.tags]_vars

\* A new task with a title, a description and a tag has been submitted:
\* onSubmit received them and the form is empty again.
C22_Witness ==
  /\ form.component = "TaskForm"
  /\ formTask = Undefined
  /\ Len(form.out) = 1
  /\ form.out[1].cb = "onSubmit"
  /\ form.out[1].arg.status = "NOT_STARTED"
  /\ ~IsEmptyString(form.out[1].arg.title)
  /\ form.out[1].arg.description # Undefined
  /\ Len(form.out[1].arg.tags) > 0
  /\ IsEmptyString(text.title)
  /\ IsEmptyString(text.description)
  /\ form.tags = <<>>
  /\ form.errors = NoErrors

\* C23: the priority of a task submitted through TaskForm is classified only
\* when none was chosen: an edited task that has a priority keeps it on
\* submit. The submitted priority is then the priority of the task prop, so
\* the same form contents submitted for a task of another priority carry
\* another priority.
C23_EditedTaskKeepsPriority ==
  [][(/\ FormHandleSubmit
      /\ validateForm(text.title, text.description) = NoErrors
      /\ formTask # Undefined) =>
       \A other \in EditTasks :
         other.priority # formTask.priority =>
           FormNewTask(other, text.title, text.description, form.tags).priority
             # form'.out[1].arg.priority]_vars

\* C24: in every state reached by signup, login, logout and the handling of
\* a 401, the local storage keys auth_token and user are both present or
\* both absent: what writes one writes the other, and what removes one
\* removes the other.
C24_TokenAndUserTogether ==
  (localStorage["auth_token"] = Absent) <=> (localStorage["user"] = Absent)

\* A request of the ApiClient was answered 401 and a signup has stored the
\* session of its answer: both keys are present.
C24_Witness ==
  \E a \in AuthIds, c \in ApiIds :
    /\ calls[a].op = "signup" /\ calls[a].pc = "done"
    /\ calls[a].outcome = "returned"
    /\ calls[c].pc = "done"
    /\ calls[c].resp.kind = "error" /\ calls[c].resp.status = 401
    /\ localStorage["auth_token"] = Get(calls[a].resp.body, "token")
    /\ localStorage["auth_token"] # Absent
    /\ localStorage["user"] # Absent

\* The login of slot d has stored the session that local storage holds.
StoredBy(d) ==
  /\ calls[d].op = "login"
  /\ calls[d].pc = "done"
  /\ calls[d].outcome = "returned"
  /\ localStorage["auth_token"] # Absent
  /\ localStorage["auth_token"] = Get(calls[d].resp.body, "token")
  /\ cookieJar["auth_token"] = Get(calls[d].resp.body, "token")

\* C25: logout clears the credentials when it completes, not when it is
\* called: when a login has stored a token while the remote call of a logout
\* was pending, the completion of the logout removes the cookie, auth_token
\* and user that the login stored. The settings page calls logout without
\* awaiting it and goes to /login, where that login can be made.
C25_LogoutClearsLaterLogin ==
  [][\A c \in CallIds :
       Settles(c, "logout") =>
         /\ CredentialsCleared(cookieJar', localStorage')
         /\ \A d \in CallIds \ {c} :
              StoredBy(d) =>
                /\ cookieJar'["auth_token"] # Get(calls[d].resp.body, "token")
                /\ localStorage'["auth_token"] = Absent
                /\ localStorage'["user"] = Absent]_vars

\* A logout started on the settings page has completed after a login made
\* on the login page had resolved with a token: the login form is about to
\* go to /tasks and the credentials of the login are gone.
C25_Witness ==
  \E c \in CallIds, d \in CallIds :
    /\ calls[c].op = "logout" /\ calls[c].pc = "done"
    /\ calls[d].op = "login" /\ calls[d].pc = "done"
    /\ calls[d].outcome = "returned"
    /\ Get(calls[d].resp.body, "token") \in Tokens
    /\ location = "/login"
    /\ CredentialsCleared(cookieJar, localStorage)

\* C26: TaskModal and TaskForm accept the same titles: for every title, also
\* one whose length exceeds 200 with its leading and trailing whitespace and
\* not without, and a description both forms accept, the submit of TaskModal
\* calls onSubmit exactly when the validation of TaskForm passes the title,
\* and the submit of TaskForm exactly when the validation of TaskModal does.
C26_SameTitlesAccepted ==
  [][/\ (ModalHandleSubmit /\ Length(text.description) <= ModalDescriptionMax) =>
          (CallsOf(form'.out, "onSubmit") # {} <=> FormTitleError(text.title) = "")
     /\ (FormHandleSubmit /\ Length(text.description) <= ModalDescriptionMax) =>
          (CallsOf(form'.out, "onSubmit") # {}
             <=> ModalValidate(text.title, text.description) = "")]_vars

\* C27: the priority selected in TaskModal reaches the backend: the request
\* the tasks page builds from the data the modal submits, for createTask and
\* for updateTask, carries the selected priority.
C27_PriorityReachesBackend ==
  [][(PageModalSubmit /\ tasksPage'.store.pc = "pending") =>
       /\ "priority" \in DOMAIN tasksPage'.store.request
       /\ tasksPage'.store.request.priority = form.priority]_vars

\* C28: on the notifications page, whenever no fetch is in flight the list
\* held was fetched for the filter that is selected: the call whose answer
\* is applied last, leaving none in flight, was made with unreadOnly true
\* exactly when the filter is 'unread'. A switch of the filter while an
\* earlier call is pending never leaves the answer of the earlier filter.
C28_ListFetchedForFilter ==
  [][\A f \in notifPage.fetches, response \in NotificationAnswers :
       (NotifFetchFulfilled(f, response) /\ notifPage'.fetches = {}) =>
         (f.unreadOnly <=> notifPage'.filter = "unread")]_vars

\* C29: on the notifications page loading is true in every state in which a
\* call of fetchNotifications is in flight, and false once every call that
\* was started has completed, fulfilled or rejected.
C29_LoadingWhileInFlight ==
  /\ notifPage.fetches # {} => notifPage.loading
  /\ notifPage.fetches = {} => ~notifPage.loading

====
